---------------------------- MODULE Spec2Model ----------------------------
(***************************************************************************)
(* Model of the EventTunnel visualization (chrisirhc/jit):                 *)
(*   - the perspective projection of timestamps to radii                   *)
(*     (EventTunnel.createLevelDistanceFunc, computeFocalLengthAndDistance,*)
(*      getTimeAtPosition),                                                *)
(*   - the background ring set (Canvas.Background.Circles / Ring),         *)
(*   - the time-window transition (EventTunnel.Plot.animateTime).          *)
(*                                                                         *)
(* JavaScript numbers are modelled as exact rationals <<n, d>> in lowest   *)
(* terms with d >= 0.  A zero denominator encodes the IEEE results of a    *)
(* division by zero: <<1,0>> = Infinity, <<-1,0>> = -Infinity,             *)
(* <<0,0>> = NaN.  Rounding of doubles is not modelled.                    *)
(***************************************************************************)
EXTENDS Integers, Sequences, FiniteSets, TLC

(***************************************************************************)
(* Bounds of the model.                                                    *)
(***************************************************************************)
\* window bounds are 6000 * k seconds for k in 1..MaxTick
MaxTick == 4
\* number of animateTime / setInterval calls explored in one behaviour
MaxCalls == 2
\* the largest number of children of the root in the trees that are laid out
MaxStar == 37
\* the largest number of alpha animations running at a time
MaxFades == 1
\* the passes of the second loop of tagChildren that are followed
MaxRank == 5
\* the largest number of alpha animations of one event running at a time
MaxOverlap == 2
\* number of animateTime calls explored while one event fades
MaxFadeCalls == 3

(***************************************************************************)
(* Rational arithmetic.                                                    *)
(***************************************************************************)
Abs(i) == IF i < 0 THEN -i ELSE i

Sign(i) == IF i < 0 THEN -1 ELSE IF i > 0 THEN 1 ELSE 0

RECURSIVE GCD(_, _)
GCD(a, b) == IF b = 0 THEN a ELSE GCD(b, a % b)

Norm(n, d) ==
  IF d = 0 THEN <<Sign(n), 0>>
  ELSE LET g == GCD(Abs(n), Abs(d))
           s == IF d < 0 THEN -1 ELSE 1
       IN  <<(s * n) \div g, (s * d) \div g>>

R(i) == <<i, 1>>

IsFinite(a) == a[2] # 0

IsNaN(a) == a[1] = 0 /\ a[2] = 0

RNeg(a) == <<-a[1], a[2]>>

RAdd(a, b) ==
  IF a[2] = 0 /\ b[2] = 0
  THEN (IF a[1] = b[1] THEN a ELSE <<0, 0>>)
  ELSE Norm(a[1] * b[2] + b[1] * a[2], a[2] * b[2])

RSub(a, b) == RAdd(a, RNeg(b))

RMul(a, b) == Norm(a[1] * b[1], a[2] * b[2])

\* a / b; b = 0 gives Infinity, -Infinity or NaN as in JavaScript
RDiv(a, b) ==
  IF b[1] < 0 THEN Norm(-(a[1] * b[2]), a[2] * (-b[1]))
  ELSE Norm(a[1] * b[2], a[2] * b[1])

RLt(a, b) ==
  IF IsNaN(a) \/ IsNaN(b) THEN FALSE
  ELSE IF a[2] = 0 /\ b[2] = 0 THEN a[1] < b[1]
  ELSE a[1] * b[2] < b[1] * a[2]

RLe(a, b) ==
  IF IsNaN(a) \/ IsNaN(b) THEN FALSE
  ELSE IF a[2] = 0 /\ b[2] = 0 THEN a[1] <= b[1]
  ELSE a[1] * b[2] <= b[1] * a[2]

RGt(a, b) == RLt(b, a)

RGe(a, b) == RLe(b, a)

Zero == R(0)

One == R(1)


(***************************************************************************)
(* Inputs.                                                                 *)
(***************************************************************************)
\* the time of construction: config.nearTime defaults to it
Now == R(6000 * MaxTick)

\* config.farTime defaults to five hours before nearTime
FiveHours == R(5 * 60 * 60)

\* the window bounds a caller passes to animateTime
Times == {R(6000 * k) : k \in 1..MaxTick}

Windows == {w \in Times \X Times : RLt(w[2], w[1])}

\* the windows a caller passes while the two events are shown: the event A,
\* stamped 12000, is on the near edge of the first, outside the second and
\* inside the other two
NodeWindows == {<<R(12000), R(6000)>>, <<R(24000), R(18000)>>,
                <<R(18000), R(6000)>>, <<R(24000), R(6000)>>}

\* the ring spacings a caller configures (seconds between rings)
Intervals == {R(6000), R(9000)}

\* <<minRingRadius, maxRingRadius, constantR>>: the defaults of initialize,
\* a configuration whose derived values are whole numbers, and one whose
\* maxRingRadius exceeds constantR
Configs == {<<R(25), R(300), R(600)>>,
            <<R(100), R(200), R(400)>>,
            <<R(100), R(200), R(100)>>}

\* timestamps at which the projection is examined
Stamps == {R(6000 * k) : k \in 0..(2 * MaxTick)}

\* the tree: a synthetic root and two events
NodeIds == {"A", "B"}

TimestampOf(n) == IF n = "A" THEN R(12000) ELSE R(30000)

\* the progress values the clock delivers before the final tick with delta 1
Deltas == {Zero, <<1, 2>>}

\* Options.Node.dim, the radius of a drawn node
DefaultDim == R(3)

\* the node radii of the trees that are laid out
NestedDims == {DefaultDim, R(150), <<1125, 8>>, R(200)}

\* a root with n leaves
Leaves(n) == {ToString(i) : i \in 1..n}

Star(n) ==
  [children |-> [x \in {"R"} \cup Leaves(n) |->
                   IF x = "R" THEN [i \in 1..n |-> ToString(i)] ELSE <<>>],
   stamp |-> [x \in Leaves(n) |-> RSub(Now, R(6000))],
   dim |-> [x \in Leaves(n) |-> DefaultDim]]

StarSizes == {1, 2, 3, MaxStar - 1, MaxStar}

\* the root with a subtree P - C - D and a leaf S; P has a second child E
\* when withE; dP and dC are the radii of P and C
Nested(dP, dC, withE) ==
  [children |-> [x \in {"R", "P", "C", "D", "S"}
                        \cup (IF withE THEN {"E"} ELSE {}) |->
                   CASE x = "R" -> <<"P", "S">>
                     [] x = "P" -> IF withE THEN <<"C", "E">> ELSE <<"C">>
                     [] x = "C" -> <<"D">>
                     [] OTHER   -> <<>>],
   stamp |-> [x \in {"P", "C", "D", "S"} \cup (IF withE THEN {"E"} ELSE {})
                |-> CASE x = "P" -> Now
                      [] x = "D" -> RSub(Now, R(12000))
                      [] OTHER   -> RSub(Now, R(6000))],
   dim |-> [x \in {"P", "C", "D", "S"} \cup (IF withE THEN {"E"} ELSE {})
              |-> CASE x = "P" -> dP
                    [] x = "C" -> dC
                    [] OTHER   -> DefaultDim]]

\* the root with two leaves, A written 100 s and B 50 s before now
Pair ==
  [children |-> [x \in {"R", "A", "B"} |->
                   IF x = "R" THEN <<"A", "B">> ELSE <<>>],
   stamp |-> [x \in {"A", "B"} |->
                IF x = "A" THEN RSub(Now, R(100)) ELSE RSub(Now, R(50))],
   dim |-> [x \in {"A", "B"} |-> DefaultDim]]

\* the trees handed to the layout
LayoutGraphs ==
  {Pair} \cup {Star(n) : n \in StarSizes}
         \cup {Nested(dP, dC, e) : dP \in NestedDims, dC \in NestedDims,
                                   e \in BOOLEAN}

\* the spans of the windows the layout is computed for: the default five
\* hours and one hour
LayoutSpans == {FiveHours, R(3600)}

\* the tree a behaviour of Spec starts from: the root alone
RootGraph ==
  [children |-> [n \in {"R"} |-> <<>>],
   stamp |-> [n \in {} |-> Zero],
   dim |-> [n \in {} |-> Zero]]

\* the configurations a behaviour of NodeSpec starts from
NodeConfigs == {<<R(25), R(300), R(600)>>, <<R(100), R(200), R(400)>>}

\* the tree a behaviour of EdgeSpec starts from: the event B is a child of
\* the event A, which is the only child of the root
ChainGraph ==
  [children |-> [n \in {"R"} \cup NodeIds |->
                   CASE n = "R" -> <<"A">>
                     [] n = "A" -> <<"B">>
                     [] OTHER   -> <<>>],
   stamp |-> [n \in NodeIds |-> TimestampOf(n)],
   dim |-> [n \in NodeIds |-> DefaultDim]]

\* the tree a behaviour of NodeSpec starts from: the root and the two events
MainGraph ==
  [children |-> [n \in {"R"} \cup NodeIds |->
                   IF n = "R" THEN <<"A", "B">> ELSE <<>>],
   stamp |-> [n \in NodeIds |-> TimestampOf(n)],
   dim |-> [n \in NodeIds |-> DefaultDim]]

(***************************************************************************)
(* State.                                                                  *)
(***************************************************************************)
VARIABLES
  config,         \* EventTunnel.config: the projection state
  levelDistance,  \* Circles.config.levelDistance
  rings,          \* Circles.rings, nearest first
  ringAnim,       \* Circles.animation: [running, delta]
  nodeAnim,       \* EventTunnel.Plot.animation: [running, delta]
  alphaAnims,     \* per node: the alpha animations started and not finished
  graph,          \* the loaded tree: children, timestamps, node radii
  root,           \* EventTunnel.root: the id of the node the layout centres
  nodes,          \* per node: name, angleSpan and the three polar positions
  busy,           \* EventTunnel.busy
  thrown,         \* the function in which the last operation raised a TypeError
  last,           \* the last operation, its arguments and what it logged
  calls,          \* number of animateTime / setInterval calls so far
  tag             \* tagChildren: the call in progress, its loop variables

vars == <<config, levelDistance, rings, ringAnim, nodeAnim, alphaAnims, graph,
          root, nodes, busy, thrown, last, calls, tag>>

\* no call of tagChildren in progress
NoTag == [running |-> FALSE, par |-> "R", id |-> "R", j |-> 0, k |-> 0]

\* a node that setAngleSpan and computePositions have not reached yet has no
\* angleSpan, and one that tagChildren has not reached has no dist
NoSpan == <<>>

NoDist == <<>>

(***************************************************************************)
(* EventTunnel: the projection.                                            *)
(***************************************************************************)
\* mutant: the focal length derived from minRingRadius
computeFocalLengthAndDistance_minForMax(cfg) ==
  LET radius   == cfg.constantR
      span     == RSub(cfg.nearTime, cfg.farTime)
      dist     == RDiv(RMul(cfg.minRingRadius, span),
                       RSub(cfg.maxRingRadius, cfg.minRingRadius))
      focalLen == RDiv(RMul(dist, cfg.minRingRadius), radius)
  IN  [cfg EXCEPT !.distanceFromCamera = dist, !.focalLength = focalLen]

computeFocalLengthAndDistance(cfg) ==
  LET radius   == cfg.constantR
      span     == RSub(cfg.nearTime, cfg.farTime)
      dist     == RDiv(RMul(cfg.minRingRadius, span),
                       RSub(cfg.maxRingRadius, cfg.minRingRadius))
      focalLen == RDiv(RMul(dist, cfg.maxRingRadius), radius)
  IN  [cfg EXCEPT !.distanceFromCamera = dist, !.focalLength = focalLen]

\* mutant: the camera distance left out of the time difference
LevelTimeDiff_noDist(cfg, timestamp) ==
  LET timeDiff == RSub(cfg.nearTime, timestamp)
  IN  IF RLe(timeDiff, Zero) THEN RDiv(cfg.focalLength, R(5)) ELSE timeDiff

\* mutant: the clamp taken only for a negative time difference
LevelTimeDiff_strict(cfg, timestamp) ==
  LET timeDiff == RAdd(RSub(cfg.nearTime, timestamp), cfg.distanceFromCamera)
  IN  IF RLt(timeDiff, Zero) THEN RDiv(cfg.focalLength, R(5)) ELSE timeDiff

\* the timeDiff the level-distance function computes (and stores in elem.name)
LevelTimeDiff(cfg, timestamp) ==
  LET timeDiff == RAdd(RSub(cfg.nearTime, timestamp), cfg.distanceFromCamera)
  IN  IF RLe(timeDiff, Zero) THEN RDiv(cfg.focalLength, R(5)) ELSE timeDiff

\* mutant: the distance grows linearly with the time difference
createLevelDistanceFunc_linear(cfg, timestamp) ==
  RDiv(RMul(cfg.constantR, LevelTimeDiff(cfg, timestamp)), cfg.focalLength)

\* the function returned by createLevelDistanceFunc, applied to a node
\* whose data.created_at.unix_timestamp is timestamp
createLevelDistanceFunc(cfg, timestamp) ==
  RMul(RDiv(cfg.constantR, LevelTimeDiff(cfg, timestamp)), cfg.focalLength)

\* mutant: the camera distance left out of the inverse
getTimeAtPosition_noDist(cfg, position) ==
  RSub(cfg.nearTime, RDiv(RMul(cfg.focalLength, cfg.constantR), position))

\* position is the distance of the point (x, y) from the canvas centre
getTimeAtPosition(cfg, position) ==
  RSub(RAdd(cfg.nearTime, cfg.distanceFromCamera),
       RDiv(RMul(cfg.focalLength, cfg.constantR), position))

\* initialize: the merged configuration, then computeFocalLengthAndDistance
initialize(c) ==
  computeFocalLengthAndDistance(
    [nearTime |-> Now, farTime |-> RSub(Now, FiveHours),
     constantR |-> c[3], focalLength |-> R(8000), distanceFromCamera |-> Zero,
     minRingRadius |-> c[1], maxRingRadius |-> c[2]])

(***************************************************************************)
(* Layouts.Tunnel.  A graph g is a record: children[n] is the sequence of  *)
(* n's subnodes in adjacency order, stamp[n] is                            *)
(* n.data.created_at.unix_timestamp and dim[n] is n.getData('dim').        *)
(* Angles are in degrees, an exact rescaling of the radians of the code    *)
(* (2 * Math.PI is 360).                                                   *)
(***************************************************************************)
TwoPi == R(360)

NaN == <<0, 0>>

\* Math.asin, in degrees: exact at 0, 1/2 and 1, linear in between, odd, and
\* NaN outside [-1, 1]
asinUpper(x) ==
  IF RLe(x, <<1, 2>>) THEN RMul(R(60), x)
  ELSE RAdd(R(30), RMul(R(120), RSub(x, <<1, 2>>)))

asin(x) ==
  IF IsNaN(x) \/ RGt(x, One) \/ RLt(x, RNeg(One)) THEN NaN
  ELSE IF RLt(x, Zero) THEN RNeg(asinUpper(RNeg(x)))
  ELSE asinUpper(x)

Nodes(g) == DOMAIN g.children

NonRoot(g) == DOMAIN g.stamp

IsFirstChild(g, p, n) == Len(g.children[p]) > 0 /\ g.children[p][1] = n

HasChild(g, p, n) == \E i \in 1..Len(g.children[p]) : g.children[p][i] = n

Parent(g, n) == CHOOSE p \in Nodes(g) : HasChild(g, p, n)

\* the length function compute() hands to the layout, tabulated
LengthFunc(cfg, g) ==
  [n \in NonRoot(g) |-> createLevelDistanceFunc(cfg, g.stamp[n])]

findAngleOfNode(g, node, getLength) ==
  LET distance  == getLength[node]
      radius    == g.dim[node]
      halfAngle == asin(RDiv(radius, distance))
      twice     == RMul(halfAngle, R(2))
  IN  IF IsNaN(twice) \/ twice = Zero THEN Zero ELSE twice

\* mutant: the first child is shifted whatever the distances
nodesOverlap_always(g, node, getLength) == TRUE

\* setAngleSpan: Math.abs((childNodePos - curNodePos) < (radius * 2)), the
\* comparison of the signed difference
nodesOverlap(g, node, getLength) ==
  RLt(RSub(getLength[g.children[node][1]], getLength[node]),
      RMul(g.dim[node], R(2)))

\* what setAngleSpan(parent) adds to begin and end of the span of node
SpanShift(g, node, getLength) ==
  LET p == Parent(g, node)
  IN  IF p \in NonRoot(g) /\ IsFirstChild(g, p, node)
         /\ nodesOverlap(g, p, getLength)
      THEN findAngleOfNode(g, p, getLength)
      ELSE Zero

RECURSIVE setAngleSpan(_, _, _)
RECURSIVE SpanSum(_, _, _, _)

\* mutant: the span of a node with children takes in the node's own footprint
setAngleSpan_withFootprint(g, node, getLength) ==
  LET shift == SpanShift(g, node, getLength)
      own   == SpanSum(g, node, Len(g.children[node]), getLength)
      self  == IF Len(g.children[node]) = 0 THEN Zero
               ELSE findAngleOfNode(g, node, getLength)
  IN  [begin |-> shift, end |-> RAdd(RAdd(own, self), shift)]

\* the sum of angleSpan.end over the first i children of node
SpanSum(g, node, i, getLength) ==
  IF i = 0 THEN Zero
  ELSE RAdd(SpanSum(g, node, i - 1, getLength),
            setAngleSpan(g, g.children[node][i], getLength).end)

\* node.angleSpan once computePositions has run setAngleSpan over the tree
setAngleSpan(g, node, getLength) ==
  LET shift == SpanShift(g, node, getLength)
      own   == SpanSum(g, node, Len(g.children[node]), getLength)
  IN  [begin |-> shift, end |-> RAdd(own, shift)]

\* angleSpan of every node as plotNodeAndChildren reads it
AngleSpans(g, getLength) ==
  [n \in Nodes(g) |->
     IF n \in NonRoot(g) THEN setAngleSpan(g, n, getLength)
     ELSE [begin |-> Zero, end |-> TwoPi]]

minAngleForNode == RDiv(RMul(R(5), TwoPi), R(180))

RECURSIVE CountSimple(_, _, _)
CountSimple(kids, span, i) ==
  IF i = 0 THEN 0
  ELSE CountSimple(kids, span, i - 1)
         + (IF span[kids[i]].end = Zero THEN 1 ELSE 0)

RECURSIVE TotalSpan(_, _, _)
TotalSpan(kids, span, i) ==
  IF i = 0 THEN Zero
  ELSE RAdd(TotalSpan(kids, span, i - 1), span[kids[i]].end)

\* mutant: the space left after the simple children is not shared out
Allotment_noContraction(kids, span, startAngle, endAngle) ==
  LET numChildren        == Len(kids)
      numSimpleChildren  == CountSimple(kids, span, numChildren)
      leftOverSpace      == RSub(RSub(endAngle, startAngle),
                                 TotalSpan(kids, span, numChildren))
      extraSpacePerChild == RDiv(leftOverSpace, R(numChildren))
  IN  IF RLt(extraSpacePerChild, minAngleForNode) /\ numSimpleChildren > 0
      THEN [leftOverSpace |-> leftOverSpace, notEnoughSpace |-> TRUE,
            contraction |-> Zero, extraSpacePerChild |-> Zero]
      ELSE [leftOverSpace |-> leftOverSpace, notEnoughSpace |-> FALSE,
            contraction |-> Zero, extraSpacePerChild |-> extraSpacePerChild]

\* plotNodeAndChildren, before the loop that plots the children: the space
\* left over and how it is shared out
Allotment(kids, span, startAngle, endAngle) ==
  LET numChildren        == Len(kids)
      numSimpleChildren  == CountSimple(kids, span, numChildren)
      leftOverSpace      == RSub(RSub(endAngle, startAngle),
                                 TotalSpan(kids, span, numChildren))
      extraSpacePerChild == RDiv(leftOverSpace, R(numChildren))
      numComplexChildren == numChildren - numSimpleChildren
  IN  IF RLt(extraSpacePerChild, minAngleForNode) /\ numSimpleChildren > 0
      THEN [leftOverSpace |-> leftOverSpace, notEnoughSpace |-> TRUE,
            contraction |->
              RDiv(RSub(leftOverSpace,
                        RMul(minAngleForNode, R(numSimpleChildren))),
                   R(IF numComplexChildren = 0 THEN 1
                     ELSE numComplexChildren)),
            extraSpacePerChild |-> Zero]
      ELSE [leftOverSpace |-> leftOverSpace, notEnoughSpace |-> FALSE,
            contraction |-> Zero, extraSpacePerChild |-> extraSpacePerChild]

\* mutant: a simple child of a crowded node is given no width
ChildInterval_noMinimum(childSpan, a, offset, startAngle) ==
  LET begin == RAdd(RAdd(RAdd(offset, childSpan.begin), startAngle),
                    RDiv(a.extraSpacePerChild, R(2)))
  IN  IF a.notEnoughSpace /\ childSpan.end = Zero
      THEN [startAngle |-> begin, endAngle |-> begin]
      ELSE [startAngle |-> RAdd(begin, RDiv(a.contraction, R(2))),
            endAngle |->
              RAdd(RAdd(begin, RDiv(a.contraction, R(2))),
                   RAdd(RAdd(RSub(childSpan.end, childSpan.begin),
                             RDiv(a.extraSpacePerChild, R(2))),
                        RDiv(a.contraction, R(2))))]

\* mutant: a child starts where its span begins, not after the sibling
\* before it
ChildInterval_noOffset(childSpan, a, offset, startAngle) ==
  LET begin == RAdd(RAdd(childSpan.begin, startAngle),
                    RDiv(a.extraSpacePerChild, R(2)))
  IN  IF a.notEnoughSpace /\ childSpan.end = Zero
      THEN [startAngle |-> RAdd(begin, RDiv(minAngleForNode, R(2))),
            endAngle |-> RAdd(begin, minAngleForNode)]
      ELSE [startAngle |-> RAdd(begin, RDiv(a.contraction, R(2))),
            endAngle |->
              RAdd(RAdd(begin, RDiv(a.contraction, R(2))),
                   RAdd(RAdd(RSub(childSpan.end, childSpan.begin),
                             RDiv(a.extraSpacePerChild, R(2))),
                        RDiv(a.contraction, R(2))))]

\* plotNodeAndChildren, the body of the loop that plots the children:
\* nodeStartAngle and nodeEndAngle of a child whose angleSpan is childSpan
ChildInterval(childSpan, a, offset, startAngle) ==
  LET spaceNeeded  == RSub(childSpan.end, childSpan.begin)
      spaceAlotted == RAdd(RAdd(spaceNeeded,
                                RDiv(a.extraSpacePerChild, R(2))),
                           RDiv(a.contraction, R(2)))
      Advance(begin, half) ==
        [startAngle |-> RAdd(begin, half),
         endAngle |->
           IF a.notEnoughSpace /\ childSpan.end = Zero
           THEN RAdd(RAdd(begin, half), half)
           ELSE RAdd(RAdd(begin, half), spaceAlotted)]
  IN  Advance(RAdd(RAdd(RAdd(offset, childSpan.begin), startAngle),
                   RDiv(a.extraSpacePerChild, R(2))),
              IF a.notEnoughSpace /\ childSpan.end = Zero
              THEN RDiv(minAngleForNode, R(2))
              ELSE RDiv(a.contraction, R(2)))

RECURSIVE plotNodeAndChildren(_, _, _, _, _)
RECURSIVE PlotChildren(_, _, _, _, _, _, _)

\* the loop over the children of node from the i-th on; the result lists,
\* for every node plotted, the interval it was called with and the offset
\* its parent's loop had reached before it
PlotChildren(g, span, node, startAngle, a, i, offset) ==
  LET Visit(child, iv) ==
        <<[id |-> child, startAngle |-> iv.startAngle,
           endAngle |-> iv.endAngle, offset |-> offset]>>
        \o plotNodeAndChildren(g, span, child, iv.startAngle, iv.endAngle)
        \o PlotChildren(g, span, node, startAngle, a, i + 1, iv.endAngle)
  IN  IF i > Len(g.children[node]) THEN <<>>
      ELSE Visit(g.children[node][i],
                 ChildInterval(span[g.children[node][i]], a, offset,
                               startAngle))

plotNodeAndChildren(g, span, node, startAngle, endAngle) ==
  IF Len(g.children[node]) = 0 THEN <<>>
  ELSE PlotChildren(g, span, node, startAngle,
                    Allotment(g.children[node], span, startAngle, endAngle),
                    1, Zero)

\* computePositions: the calls plotNodeAndChildren makes for the whole tree
Plotted(g, getLength) ==
  LET Index(calls_) ==
        [n \in NonRoot(g) |->
           calls_[CHOOSE i \in 1..Len(calls_) : calls_[i].id = n]]
  IN  Index(plotNodeAndChildren(g, AngleSpans(g, getLength), "R",
                                Zero, TwoPi))

computePositions(g, getLength) ==
  LET pl == Plotted(g, getLength)
  IN  [n \in Nodes(g) |->
         IF n \in NonRoot(g)
         THEN [theta |-> pl[n].startAngle, rho |-> getLength[n]]
         ELSE [theta |-> Zero, rho |-> Zero]]

\* Layouts.Tunnel.compute(property): the positions of the slots named in
\* property are set, and the length function leaves timeDiff in node.name
compute(cfg, g, ns, property) ==
  LET Place(p, span) ==
        [n \in Nodes(g) |->
           [ns[n] EXCEPT
              !.name = IF n \in NonRoot(g)
                       THEN LevelTimeDiff(cfg, g.stamp[n]) ELSE @,
              !.angleSpan = span[n],
              !.startPos = IF "start" \in property THEN p[n] ELSE @,
              !.pos = IF "current" \in property THEN p[n] ELSE @,
              !.endPos = IF "end" \in property THEN p[n] ELSE @]]
  IN  Place(computePositions(g, LengthFunc(cfg, g)),
            AngleSpans(g, LengthFunc(cfg, g)))

(***************************************************************************)
(* Canvas.Background.Ring.                                                 *)
(***************************************************************************)
getUpdatedState(cfg) ==
  [nearTime |-> cfg.nearTime, farTime |-> cfg.farTime, f |-> cfg.focalLength,
   radius |-> cfg.constantR, dist |-> cfg.distanceFromCamera]

calculateDistanceRadius(state, curTime) ==
  LET timeDiff0 == RAdd(RSub(state.nearTime, curTime), state.dist)
      timeDiff  == IF RLt(timeDiff0, Zero) THEN RDiv(state.f, R(5))
                   ELSE timeDiff0
  IN  RMul(RDiv(state.radius, timeDiff), state.f)

\* Ring.initialize; optState is <<>> when options carries no state and
\* <<state>> when it does.  A falsy options.time (0 or NaN) is replaced by
\* the current date.
RingInitialize(cfg, optTime, optState) ==
  LET time  == IF optTime = Zero \/ IsNaN(optTime) THEN Now ELSE optTime
      state == IF Len(optState) = 0 THEN getUpdatedState(cfg) ELSE optState[1]
      rad   == calculateDistanceRadius(state, time)
  IN  [time |-> time, state |-> state,
       startRadius |-> rad, endRadius |-> rad, currentRadius |-> rad]

\* Ring.compute('endRadius')
\* mutant: compute moves the ring to its projection at once
RingComputeEnd_allSlots(cfg, ring) ==
  RingInitialize(cfg, ring.time, <<getUpdatedState(cfg)>>)

RingComputeEnd(cfg, ring) ==
  LET state == getUpdatedState(cfg)
  IN  [ring EXCEPT !.state = state,
                   !.endRadius = calculateDistanceRadius(state, ring.time)]

findDelta(ring, delta) ==
  RAdd(RMul(RSub(ring.endRadius, ring.startRadius), delta), ring.startRadius)

RingAnimate(ring, delta) ==
  LET cur == findDelta(ring, delta)
  IN  IF RGe(delta, One)
      THEN [ring EXCEPT !.currentRadius = cur, !.startRadius = cur,
                        !.endRadius = cur]
      ELSE [ring EXCEPT !.currentRadius = cur]

(***************************************************************************)
(* Canvas.Background.Circles: the ring set.                                *)
(* augmentRings and pruneRings return [rings, thrown]: the list they leave *)
(* and the function that raised a TypeError ("none" on normal return).     *)
(***************************************************************************)
RECURSIVE ResetLoop(_, _, _, _)
ResetLoop(cfg, timeInterval, curTime, acc) ==
  IF RGt(curTime, cfg.farTime)
  THEN ResetLoop(cfg, timeInterval, RSub(curTime, timeInterval),
                 Append(acc, RingInitialize(cfg, curTime, <<>>)))
  ELSE acc

resetRings(cfg, timeInterval) ==
  LET projectionPlane ==
        RAdd(cfg.nearTime, RSub(cfg.distanceFromCamera, cfg.focalLength))
  IN  ResetLoop(cfg, timeInterval, projectionPlane, <<>>)

RECURSIVE AugmentEnd(_, _, _, _, _)
AugmentEnd(cfg, timeInterval, state, nextRingTime, rs) ==
  IF RGe(nextRingTime, cfg.farTime)
  THEN AugmentEnd(cfg, timeInterval, state,
                  RSub(nextRingTime, timeInterval),
                  Append(rs, RingInitialize(cfg, nextRingTime, <<state>>)))
  ELSE rs

\* mutant: rings for the near end pushed at the far end of the list
RECURSIVE AugmentBegin_push(_, _, _, _, _)
AugmentBegin_push(cfg, timeInterval, state, prevRingTime, rs) ==
  LET projectionPlane ==
        RAdd(cfg.nearTime, RSub(cfg.distanceFromCamera, cfg.focalLength))
  IN  IF RLe(prevRingTime, projectionPlane)
      THEN AugmentBegin_push(cfg, timeInterval, state,
                             RAdd(prevRingTime, timeInterval),
                             Append(rs, RingInitialize(cfg, prevRingTime, <<state>>)))
      ELSE rs

RECURSIVE AugmentBegin(_, _, _, _, _)
AugmentBegin(cfg, timeInterval, state, prevRingTime, rs) ==
  LET projectionPlane ==
        RAdd(cfg.nearTime, RSub(cfg.distanceFromCamera, cfg.focalLength))
  IN  IF RLe(prevRingTime, projectionPlane)
      THEN AugmentBegin(cfg, timeInterval, state,
                        RAdd(prevRingTime, timeInterval),
                        <<RingInitialize(cfg, prevRingTime, <<state>>)>> \o rs)
      ELSE rs

\* mutant: the new rings take the current projection state
augmentRings_freshState(rs, cfg, timeInterval) ==
  IF Len(rs) = 0
  THEN [rings |-> rs, thrown |-> "augmentRings"]
  ELSE LET Both(atEnd) ==
             AugmentBegin(cfg, timeInterval, getUpdatedState(cfg),
                          RAdd(atEnd[1].time, timeInterval), atEnd)
       IN  [rings |-> Both(AugmentEnd(cfg, timeInterval,
                                      getUpdatedState(cfg),
                                      RSub(rs[Len(rs)].time, timeInterval),
                                      rs)),
            thrown |-> "none"]

augmentRings(rs, cfg, timeInterval) ==
  IF Len(rs) = 0
  THEN \* this.rings[last].time with last = -1
       [rings |-> rs, thrown |-> "augmentRings"]
  ELSE LET state  == rs[1].state
           atEnd  == AugmentEnd(cfg, timeInterval, state,
                                RSub(rs[Len(rs)].time, timeInterval), rs)
           atBoth == AugmentBegin(cfg, timeInterval, state,
                                  RAdd(atEnd[1].time, timeInterval), atEnd)
       IN  [rings |-> atBoth, thrown |-> "none"]

\* while(this.rings[last].time < farTime && last >= 0) pop
RECURSIVE PruneEnd(_, _)
PruneEnd(rs, cfg) ==
  IF Len(rs) = 0
  THEN [rings |-> rs, thrown |-> "pruneRings"]
  ELSE IF RLt(rs[Len(rs)].time, cfg.farTime)
       THEN PruneEnd(SubSeq(rs, 1, Len(rs) - 1), cfg)
       ELSE [rings |-> rs, thrown |-> "none"]

\* while(this.rings[0].time > nearTime && this.rings.length > 0) shift
RECURSIVE PruneBegin(_, _)
PruneBegin(rs, cfg) ==
  IF Len(rs) = 0
  THEN [rings |-> rs, thrown |-> "pruneRings"]
  ELSE IF RGt(rs[1].time, cfg.nearTime)
       THEN PruneBegin(Tail(rs), cfg)
       ELSE [rings |-> rs, thrown |-> "none"]

\* mutant: rings are removed at the far end only
pruneRings_endOnly(rs, cfg) == PruneEnd(rs, cfg)

pruneRings(rs, cfg) ==
  LET atEnd == PruneEnd(rs, cfg)
  IN  IF atEnd.thrown # "none" THEN atEnd ELSE PruneBegin(atEnd.rings, cfg)

(***************************************************************************)
(* The animation clock (Animation): start is ignored while the timer runs, *)
(* compute(delta) is called with increasing delta < 1, and the last step   *)
(* calls compute(1) and then complete().                                   *)
(***************************************************************************)
Idle == [running |-> FALSE, delta |-> Zero]

AnimationStart(anim) ==
  IF anim.running THEN anim ELSE [running |-> TRUE, delta |-> Zero]

(***************************************************************************)
(* Operations on the whole visualization.  s is the record of the fields   *)
(* an operation reads and writes.                                          *)
(***************************************************************************)
State ==
  [config |-> config, levelDistance |-> levelDistance, rings |-> rings,
   ringAnim |-> ringAnim, nodeAnim |-> nodeAnim, alphaAnims |-> alphaAnims,
   graph |-> graph, root |-> root, nodes |-> nodes, thrown |-> "none"]

\* mutant: the ring transition is started on the rings as they are
circlesAnimate_noAugment(s) ==
  IF Len(s.rings) = 0
  THEN [s EXCEPT !.thrown = "augmentRings"]
  ELSE [s EXCEPT
          !.rings = [i \in 1..Len(s.rings) |->
                       RingComputeEnd(s.config, s.rings[i])],
          !.ringAnim = AnimationStart(s.ringAnim)]

\* Circles.animate: augmentRings, compute('endRadius') on every ring, start
circlesAnimate(s) ==
  LET aug == augmentRings(s.rings, s.config, s.levelDistance)
  IN  IF aug.thrown # "none"
      THEN [s EXCEPT !.thrown = aug.thrown]
      ELSE [s EXCEPT
              !.rings = [i \in 1..Len(aug.rings) |->
                           RingComputeEnd(s.config, aug.rings[i])],
              !.ringAnim = AnimationStart(s.ringAnim)]

\* EventTunnel.Plot.animate: start the node transition
plotAnimate(s) == [s EXCEPT !.nodeAnim = AnimationStart(s.nodeAnim)]

\* mutant: the derived projection values not recomputed for the new window
animateTime_noRecompute(s, nearTime, farTime) ==
  LET c1 == [s.config EXCEPT !.farTime = farTime, !.nearTime = nearTime]
      s1 == [s EXCEPT !.config = c1,
                      !.nodes = compute(c1, s.graph, s.nodes, {"end"})]
  IN  circlesAnimate(plotAnimate(s1))

\* mutant: a call while a transition is in flight is ignored
animateTime_guarded(s, nearTime, farTime) ==
  LET c1 == [s.config EXCEPT !.farTime = farTime, !.nearTime = nearTime]
      c2 == computeFocalLengthAndDistance(c1)
      s1 == [s EXCEPT !.config = c2,
                      !.nodes = compute(c2, s.graph, s.nodes, {"end"})]
  IN  IF s.nodeAnim.running \/ s.ringAnim.running THEN s
      ELSE circlesAnimate(plotAnimate(s1))

\* mutant: the nodes are moved to their new positions at once
animateTime_jump(s, nearTime, farTime) ==
  LET c1 == [s.config EXCEPT !.farTime = farTime, !.nearTime = nearTime]
      c2 == computeFocalLengthAndDistance(c1)
      s1 == [s EXCEPT !.config = c2,
                      !.nodes = compute(c2, s.graph, s.nodes,
                                        {"current", "start", "end"})]
  IN  circlesAnimate(plotAnimate(s1))

\* EventTunnel.Plot.animateTime
animateTime(s, nearTime, farTime) ==
  LET c1 == [s.config EXCEPT !.farTime = farTime, !.nearTime = nearTime]
      c2 == computeFocalLengthAndDistance(c1)
      s1 == [s EXCEPT !.config = c2,
                      !.nodes = compute(c2, s.graph, s.nodes, {"end"})]
  IN  circlesAnimate(plotAnimate(s1))

\* Math.cos and Math.sin of an angle in degrees: exact at the multiples of a
\* quarter turn, linear in between
cos(theta) ==
  LET t == Norm(theta[1] % (360 * theta[2]), theta[2])
  IN  IF RLe(t, R(180)) THEN RSub(One, RDiv(t, R(90)))
      ELSE RSub(RDiv(RSub(t, R(180)), R(90)), One)

sin(theta) == cos(RSub(theta, R(90)))

\* Polar.getc
getc(p) == [x |-> RMul(p.rho, cos(p.theta)), y |-> RMul(p.rho, sin(p.theta))]

RAbs(a) == IF a[1] < 0 THEN RNeg(a) ELSE a

\* the compute callback of Plot.animate: nodeVisible
nodeVisible(cfg, p) ==
  /\ RLe(RAbs(getc(p).x), cfg.maxRingRadius)
  /\ RLe(RAbs(getc(p).y), cfg.maxRingRadius)
  /\ RGe(p.rho, cfg.minRingRadius)

\* the interpolation of one number
Interpolate(from, to, delta) == RAdd(from, RMul(RSub(to, from), delta))

\* interp[p](node, m[p], delta, versor): the position of a node at progress
\* delta; at delta >= 1 the start position becomes the end position
InterpolatePos(node, delta) ==
  LET p == [theta |-> Interpolate(node.startPos.theta, node.endPos.theta,
                                  delta),
            rho |-> Interpolate(node.startPos.rho, node.endPos.rho, delta)]
  IN  IF RGe(delta, One)
      THEN [node EXCEPT !.pos = p, !.startPos = node.endPos]
      ELSE [node EXCEPT !.pos = p]

\* the duration of an alpha animation, in milliseconds
AlphaDuration == 500

\* mutant: the alpha is set at once, no animation
animateAlpha_instant(na, alphaVal) ==
  [na EXCEPT !.node.alpha = alphaVal, !.node.alphaEnd = alphaVal]

\* animateAlpha on na = [node, anims], a node and its running alpha
\* animations: the end alpha is set and a new Animation is started
animateAlpha(na, alphaVal) ==
  [node |-> [na.node EXCEPT !.alphaEnd = alphaVal],
   anims |-> Append(na.anims, [delta |-> Zero, duration |-> AlphaDuration])]

\* mutant: the node at the centre is left as it is
Visibility_keepCentre(cfg, na) ==
  IF ~nodeVisible(cfg, na.node.pos)
  THEN IF na.node.alpha # Zero /\ na.node.pos.rho # Zero
       THEN animateAlpha(na, Zero)
       ELSE na
  ELSE IF na.node.alpha # One THEN animateAlpha(na, One)
  ELSE na

\* the compute callback of Plot.animate, for one node, once its position
\* is interpolated
Visibility(cfg, na) ==
  LET rho == na.node.pos.rho
  IN  IF ~nodeVisible(cfg, na.node.pos)
      THEN IF na.node.alpha # Zero /\ rho # Zero THEN animateAlpha(na, Zero)
           ELSE IF rho = Zero
           THEN [na EXCEPT !.node.alpha = Zero, !.node.faux = TRUE]
           ELSE na
      ELSE IF na.node.alpha # One THEN animateAlpha(na, One)
      ELSE na

\* the compute callback of Plot.animate
nodesCompute(s, delta) ==
  LET r == [n \in Nodes(s.graph) |->
              Visibility(s.config,
                         [node |-> InterpolatePos(s.nodes[n], delta),
                          anims |-> s.alphaAnims[n]])]
  IN  [s EXCEPT !.nodes = [n \in Nodes(s.graph) |-> r[n].node],
                !.alphaAnims = [n \in Nodes(s.graph) |-> r[n].anims],
                !.nodeAnim = [s.nodeAnim EXCEPT !.delta = delta]]

\* the compute option of the animation animateAlpha starts:
\* Interpolator.number(node, 'alpha', delta, 'getData', 'setData')
alphaCompute(s, n, i, delta) ==
  [s EXCEPT !.nodes[n].alpha =
              Interpolate(s.nodes[n].alphaStart, s.nodes[n].alphaEnd, delta),
            !.alphaAnims[n][i].delta = delta]

\* a sequence without its i-th element
Without(seq, i) ==
  [k \in 1..(Len(seq) - 1) |-> IF k < i THEN seq[k] ELSE seq[k + 1]]

RMin(a, b) == IF RLt(b, a) THEN b ELSE a

RMax(a, b) == IF RGt(b, a) THEN b ELSE a

\* mutant: the edge is drawn whether or not an endpoint is at the origin
plotLine_noOrigin(nodeFrom, nodeTo) ==
  LET Faded(min, max) ==
        IF RLt(max, One) \/ RLt(min, One)
        THEN RMul(RDiv(RAdd(max, min), R(2)), RDiv(RAdd(max, min), R(2)))
        ELSE One
  IN  Faded(RMin(nodeFrom.alpha, nodeTo.alpha),
            RMax(nodeFrom.alpha, nodeTo.alpha))

\* plotLine: the globalAlpha an edge of a type other than 'none' is drawn
\* with
plotLine(nodeFrom, nodeTo) ==
  LET Faded(min, max) ==
        IF RLt(max, One) \/ RLt(min, One)
        THEN RMul(RDiv(RAdd(max, min), R(2)), RDiv(RAdd(max, min), R(2)))
        ELSE One
  IN  IF nodeFrom.pos.rho = Zero \/ nodeTo.pos.rho = Zero THEN Zero
      ELSE Faded(RMin(nodeFrom.alpha, nodeTo.alpha),
                 RMax(nodeFrom.alpha, nodeTo.alpha))

\* mutant: a click centres the clicked node and starts a transition
onClick_recenter(s, id) ==
  plotAnimate([s EXCEPT !.root = id,
                        !.nodes = compute(s.config, s.graph, s.nodes,
                                          {"end"})])

\* onClick: no field of the visualization is assigned
onClick(s, id) == s

\* setTimeStep: circles.setTimeStep is not a function (Circles defines
\* setInterval and getInterval only), so the call raises a TypeError
setTimeStep(s, newInterval) == [s EXCEPT !.thrown = "setTimeStep"]

\* getTimeStep: circles.getTimeStep is not a function either
getTimeStep(s) == [s EXCEPT !.thrown = "getTimeStep"]

\* Circles.setInterval
setInterval(s, newInterval) ==
  [s EXCEPT !.levelDistance = newInterval,
            !.rings = resetRings(s.config, newInterval)]

\* the compute callback of Circles.animate
ringsCompute(s, delta) ==
  [s EXCEPT !.rings = [i \in 1..Len(s.rings) |-> RingAnimate(s.rings[i], delta)],
            !.ringAnim = [s.ringAnim EXCEPT !.delta = delta]]

\* the complete callback of Circles.animate
ringsComplete(s) ==
  LET pr == pruneRings(s.rings, s.config)
  IN  [s EXCEPT !.rings = pr.rings, !.thrown = pr.thrown]

Commit(s) ==
  /\ config' = s.config
  /\ levelDistance' = s.levelDistance
  /\ rings' = s.rings
  /\ ringAnim' = s.ringAnim
  /\ nodeAnim' = s.nodeAnim
  /\ alphaAnims' = s.alphaAnims
  /\ root' = s.root
  /\ nodes' = s.nodes
  /\ thrown' = s.thrown

InFlight == nodeAnim.running \/ ringAnim.running

\* the record of an operation: its name and arguments, whether a transition
\* was in flight and how many rings there were when it was called, and the
\* lines it wrote to the console
Op(name, a, b, lines) ==
  [op |-> name, near |-> a, far |-> b, inflight |-> InFlight,
   nrings |-> Len(rings), logged |-> lines]

\* the nodes of a graph as loadJSON leaves them: every position $P(0, 0)
Loaded(g) ==
  [n \in Nodes(g) |->
     [name |-> Zero, angleSpan |-> NoSpan, dist |-> NoDist,
      startPos |-> [theta |-> Zero, rho |-> Zero],
      pos |-> [theta |-> Zero, rho |-> Zero],
      endPos |-> [theta |-> Zero, rho |-> Zero],
      alphaStart |-> One, alpha |-> One, alphaEnd |-> One, faux |-> FALSE]]

(***************************************************************************)
(* Initial state: the visualization constructed (initialize, Circles       *)
(* initialize) and a tree loaded and laid out.                             *)
(***************************************************************************)
Constructed(c, li, g) ==
  /\ config = initialize(c)
  /\ levelDistance = li
  /\ rings = resetRings(initialize(c), li)
  /\ ringAnim = Idle
  /\ nodeAnim = Idle
  /\ graph = g
  /\ root = "R"
  /\ alphaAnims = [n \in Nodes(g) |-> <<>>]
  /\ nodes = compute(initialize(c), g, Loaded(g),
                     {"current", "start", "end"})
  /\ busy = FALSE
  /\ thrown = "none"
  /\ last = [op |-> "initialize", near |-> Zero, far |-> Zero,
             inflight |-> FALSE, nrings |-> 0, logged |-> <<>>]
  /\ calls = 0
  /\ tag = NoTag

(* The visualization with only the root loaded: rings and time window.     *)
Init ==
  \E c \in Configs, li \in Intervals : Constructed(c, li, RootGraph)

(* The visualization with the two-event tree loaded: node transitions.     *)
NodeInit ==
  \E c \in NodeConfigs : Constructed(c, R(6000), MainGraph)

(***************************************************************************)
(* Actions.                                                                *)
(***************************************************************************)
\* animateTime with one of the windows ws, while fewer than m calls were made
AnimateTimeWithin(ws, m) ==
  \E w \in ws :
    /\ calls < m
    /\ Commit(animateTime(State, w[1], w[2]))
    /\ last' = Op("animateTime", w[1], w[2], <<>>)
    /\ calls' = calls + 1
    /\ UNCHANGED <<busy, graph, tag>>

AnimateTimeOver(ws) == AnimateTimeWithin(ws, MaxCalls)

AnimateTime == AnimateTimeOver(Windows)

NodeAnimateTime == AnimateTimeOver(NodeWindows)

SetInterval ==
  \E li \in Intervals :
    /\ calls < MaxCalls
    /\ Commit(setInterval(State, li))
    /\ last' = Op("setInterval", li, Zero, <<>>)
    /\ calls' = calls + 1
    /\ UNCHANGED <<busy, graph, tag>>

\* a tick of the ring animation before its last step
RingTick ==
  \E d \in Deltas :
    /\ ringAnim.running
    /\ RGe(d, ringAnim.delta)
    /\ Commit(ringsCompute(State, d))
    /\ last' = Op("ringTick", d, Zero, <<>>)
    /\ UNCHANGED <<busy, calls, graph, tag>>

\* the last step of the ring animation: compute(1), then complete()
RingComplete ==
  /\ ringAnim.running
  /\ Commit([ringsComplete(ringsCompute(State, One)) EXCEPT !.ringAnim = Idle])
  /\ last' = Op("ringComplete", Zero, Zero, <<>>)
  /\ UNCHANGED <<busy, calls, graph, tag>>

\* the alpha animations that are running, as <<node, position>> pairs
Fades(aa) == UNION {{<<n, i>> : i \in 1..Len(aa[n])} : n \in DOMAIN aa}

\* a tick of the node animation before its last step, while no more than
\* m alpha animations run
NodeTickUpTo(m) ==
  \E d \in Deltas :
    /\ nodeAnim.running
    /\ RGe(d, nodeAnim.delta)
    /\ Cardinality(Fades(nodesCompute(State, d).alphaAnims)) <= m
    /\ Commit(nodesCompute(State, d))
    /\ last' = Op("nodeTick", d, Zero, <<>>)
    /\ UNCHANGED <<busy, calls, graph, tag>>

NodeTick == NodeTickUpTo(MaxFades)

\* the last step of the node animation: compute(1), then complete(), which
\* only redraws
NodeCompleteUpTo(m) ==
  /\ nodeAnim.running
  /\ Cardinality(Fades(nodesCompute(State, One).alphaAnims)) <= m
  /\ Commit([nodesCompute(State, One) EXCEPT !.nodeAnim = Idle])
  /\ last' = Op("nodeComplete", Zero, Zero, <<>>)
  /\ UNCHANGED <<busy, calls, graph, tag>>

NodeComplete == NodeCompleteUpTo(MaxFades)

\* a tick of an alpha animation before its last step
AlphaTick ==
  \E n \in Nodes(graph), d \in Deltas :
    \E i \in 1..Len(alphaAnims[n]) :
      /\ RGe(d, alphaAnims[n][i].delta)
      /\ Commit(alphaCompute(State, n, i, d))
      /\ last' = Op("alphaTick", d, Zero, <<>>)
      /\ UNCHANGED <<busy, calls, graph, tag>>

\* the last step of an alpha animation: compute(1); it has no complete
\* callback
AlphaComplete ==
  \E n \in Nodes(graph) :
    \E i \in 1..Len(alphaAnims[n]) :
      /\ Commit([alphaCompute(State, n, i, One) EXCEPT
                   !.alphaAnims[n] = Without(alphaAnims[n], i)])
      /\ last' = Op("alphaComplete", Zero, Zero, <<>>)
      /\ UNCHANGED <<busy, calls, graph, tag>>

\* what the caller of onClick passes for a click on id: the distance of the
\* clicked point from the centre and the timestamp shown there.  A node is
\* clicked where it will be drawn, the root at the centre, and an id that
\* is not in the graph somewhere on the canvas.
ClickIds == Nodes(graph) \cup {"X"}

ClickOpt(id) ==
  IF id \in NonRoot(graph)
  THEN [position |-> nodes[id].endPos.rho, time |-> graph.stamp[id]]
  ELSE IF id = "R" THEN [position |-> Zero, time |-> Zero]
  ELSE [position |-> R(100), time |-> Zero]

\* onClick: works out the time at the clicked position and writes it to the
\* console with the id and the timestamp it was given
OnClick ==
  \E id \in ClickIds :
    /\ Commit(onClick(State, id))
    /\ last' = Op("onClick", Zero, Zero,
                  <<[id |-> id, time |-> ClickOpt(id).time,
                     computedTime |->
                       getTimeAtPosition(config, ClickOpt(id).position)]>>)
    /\ UNCHANGED <<busy, calls, graph, tag>>

Next ==
  \/ AnimateTime
  \/ SetInterval
  \/ RingTick
  \/ RingComplete
  \/ NodeTick
  \/ NodeComplete
  \/ OnClick

Spec == Init /\ [][Next]_vars

NodeNext ==
  \/ NodeAnimateTime
  \/ NodeTick
  \/ NodeComplete
  \/ AlphaTick
  \/ AlphaComplete
  \/ OnClick

NodeSpec == NodeInit /\ [][NodeNext]_vars

(* The default visualization with the chain of the two events loaded: the  *)
(* drawing of the edges while nodes move and fade.                         *)
EdgeInit == Constructed(<<R(25), R(300), R(600)>>, R(6000), ChainGraph)

\* plot draws an edge: on every tick of the node transition, on its
\* completion and for half a second after it
PlotLine ==
  \E e \in {e \in Nodes(graph) \X Nodes(graph) :
              HasChild(graph, e[1], e[2])} :
    /\ last' = Op("plotLine", Zero, Zero,
                  <<[nodeFrom |-> e[1], nodeTo |-> e[2],
                     globalAlpha |-> plotLine(nodes[e[1]], nodes[e[2]])]>>)
    /\ UNCHANGED <<config, levelDistance, rings, ringAnim, nodeAnim,
                   alphaAnims, graph, root, nodes, busy, thrown, calls,
                 tag>>

(* The ring spacing set and read back through the visualization.           *)
SetTimeStep ==
  \E n \in Intervals :
    /\ Commit(setTimeStep(State, n))
    /\ last' = Op("setTimeStep", n, Zero, <<>>)
    /\ UNCHANGED <<busy, calls, graph, tag>>

\* getTimeStep: what it returns is recorded when it returns
GetTimeStep ==
  /\ Commit(getTimeStep(State))
  /\ last' = Op("getTimeStep", Zero, Zero,
                IF getTimeStep(State).thrown = "none"
                THEN <<getTimeStep(State).levelDistance>> ELSE <<>>)
  /\ UNCHANGED <<busy, calls, graph, tag>>

StepNext ==
  \/ AnimateTime
  \/ SetInterval
  \/ SetTimeStep
  \/ GetTimeStep

StepSpec == Init /\ [][StepNext]_vars

EdgeNext ==
  \/ NodeAnimateTime
  \/ NodeTick
  \/ NodeComplete
  \/ AlphaTick
  \/ AlphaComplete
  \/ PlotLine

EdgeSpec == EdgeInit /\ [][EdgeNext]_vars

(* The default visualization with the two-event tree loaded: the window    *)
(* transition as a whole, rings and nodes together.                        *)
WindowInit == Constructed(<<R(25), R(300), R(600)>>, R(6000), MainGraph)

WindowNext ==
  \/ NodeAnimateTime
  \/ SetInterval
  \/ RingTick
  \/ RingComplete
  \/ NodeTick
  \/ NodeComplete
  \/ AlphaTick
  \/ AlphaComplete

WindowSpec == WindowInit /\ [][WindowNext]_vars

(***************************************************************************)
(* The layout on its own: a visualization constructed for a window ending  *)
(* now, a tree loaded, and the positions computed by refresh or            *)
(* reposition.                                                             *)
(***************************************************************************)
LayoutInit ==
  \E c \in Configs, span \in LayoutSpans, li \in Intervals,
     g \in LayoutGraphs :
    LET cfg == computeFocalLengthAndDistance(
                 [initialize(c) EXCEPT !.farTime = RSub(Now, span)])
    IN  /\ config = cfg
        /\ levelDistance = li
        /\ rings = resetRings(cfg, li)
        /\ ringAnim = Idle
        /\ nodeAnim = Idle
        /\ graph = g
        /\ root = "R"
        /\ alphaAnims = [n \in Nodes(g) |-> <<>>]
        /\ nodes = Loaded(g)
        /\ busy = FALSE
        /\ thrown = "none"
        /\ last = [op |-> "initialize", near |-> Zero, far |-> Zero,
                   inflight |-> FALSE, nrings |-> 0, logged |-> <<>>]
        /\ calls = 0
        /\ tag = NoTag
  /\ tag = NoTag

\* refresh: compute() sets the three positions of every node
Refresh ==
  /\ nodes' = compute(config, graph, nodes, {"current", "start", "end"})
  /\ thrown' = "none"
  /\ last' = Op("refresh", Zero, Zero, <<>>)
  /\ UNCHANGED <<config, levelDistance, rings, ringAnim, nodeAnim, alphaAnims,
                 graph, root, busy, calls,
                 tag>>

\* reposition: compute('end')
Reposition ==
  /\ nodes' = compute(config, graph, nodes, {"end"})
  /\ thrown' = "none"
  /\ last' = Op("reposition", Zero, Zero, <<>>)
  /\ UNCHANGED <<config, levelDistance, rings, ringAnim, nodeAnim, alphaAnims,
                 graph, root, busy, calls,
                 tag>>

LayoutNext ==
  \/ Refresh
  \/ Reposition

LayoutSpec == LayoutInit /\ [][LayoutNext]_vars

(***************************************************************************)
(* tagChildren (TagSpec): the ranks that keep the order of the children.   *)
(* The second loop of tagChildren is modelled one pass at a time.          *)
(***************************************************************************)
\* the trees tagChildren is called on
TagGraphs ==
  {RootGraph, Pair, Star(1), Star(3), Nested(DefaultDim, DefaultDim, TRUE)}

\* par.eachAdjacency: the nodes adjacent to par, in the order the edges were
\* added: the parent first, then the children
Adjacencies(g, par) ==
  (IF par \in NonRoot(g) THEN <<Parent(g, par)>> ELSE <<>>) \o g.children[par]

RECURSIVE FirstLoop(_, _, _)
\* for (var i = 0; i < len && id != adjs[i].id; i++): the value of i after
\* the loop, counted from 0
FirstLoop(adjs, id, i) ==
  IF i < Len(adjs) /\ id # adjs[i + 1] THEN FirstLoop(adjs, id, i + 1) ELSE i

\* mutant: the second loop starts at the first adjacent node
SecondLoopStart_first(adjs, id) == 0

\* var j = (i + 1) % len, counted from 0
SecondLoopStart(adjs, id) == (FirstLoop(adjs, id, 0) + 1) % Len(adjs)

\* the call tagChildren(par, id) up to the first test of the second loop
tagChildren(s, g, par, id) ==
  LET adjs == Adjacencies(g, par)
      Enter(j) ==
        [s |-> s,
         tag |-> [running |-> id # adjs[j + 1], par |-> par, id |-> id,
                  j |-> j, k |-> 0]]
      Return(r) ==
        [s |-> r,
         tag |-> [running |-> FALSE, par |-> par, id |-> id, j |-> 0, k |-> 0]]
  IN  IF s.nodes[par].angleSpan = NoSpan THEN Return(s)
      ELSE IF Len(adjs) = 0 THEN Return([s EXCEPT !.thrown = "tagChildren"])
      ELSE Enter(SecondLoopStart(adjs, id))

\* one pass of the second loop: adjs[j].dist = k++, j = (j + 1) % len, and
\* the test id != adjs[j].id
tagChildrenStep(s, g, t) ==
  LET adjs == Adjacencies(g, t.par)
      next == (t.j + 1) % Len(adjs)
  IN  [s |-> [s EXCEPT !.nodes[adjs[t.j + 1]].dist = <<t.k>>],
       tag |-> [t EXCEPT !.j = next, !.k = t.k + 1,
                         !.running = t.id # adjs[next + 1]]]

TagInit ==
  \E g \in TagGraphs :
    /\ config = initialize(<<R(25), R(300), R(600)>>)
    /\ levelDistance = R(6000)
    /\ rings = resetRings(config, levelDistance)
    /\ ringAnim = Idle
    /\ nodeAnim = Idle
    /\ graph = g
    /\ root = "R"
    /\ alphaAnims = [n \in Nodes(g) |-> <<>>]
    /\ nodes = Loaded(g)
    /\ busy = FALSE
    /\ thrown = "none"
    /\ last = [op |-> "initialize", near |-> Zero, far |-> Zero,
               inflight |-> FALSE, nrings |-> 0, logged |-> <<>>]
    /\ calls = 0
    /\ tag = NoTag

\* refresh, between two calls of tagChildren
TagRefresh ==
  /\ ~tag.running
  /\ Refresh

TagChildren ==
  \E par \in Nodes(graph), id \in Nodes(graph) :
    LET r == tagChildren(State, graph, par, id)
    IN  /\ ~tag.running
        /\ Commit(r.s)
        /\ tag' = r.tag
        /\ last' = Op("tagChildren", Zero, Zero, <<[par |-> par, id |-> id]>>)
        /\ UNCHANGED <<busy, calls, graph>>

TagStep ==
  LET r == tagChildrenStep(State, graph, tag)
  IN  /\ tag.running
      /\ tag.k < MaxRank
      /\ Commit(r.s)
      /\ tag' = r.tag
      /\ last' = Op("tagStep", Zero, Zero, <<>>)
      /\ UNCHANGED <<busy, calls, graph>>

TagNext ==
  \/ TagRefresh
  \/ TagChildren
  \/ TagStep

TagSpec == TagInit /\ [][TagNext]_vars

(***************************************************************************)
(* Properties.                                                             *)
(***************************************************************************)
Rho(t) == createLevelDistanceFunc(config, t)

Span == RSub(config.nearTime, config.farTime)

\* nearTime - t + distanceFromCamera, before the clamp
RawTimeDiff(t) == RAdd(RSub(config.nearTime, t), config.distanceFromCamera)

IsDefaultConfig ==
  /\ config.minRingRadius = R(25)
  /\ config.maxRingRadius = R(300)
  /\ config.constantR = R(600)

\* C1: after computeFocalLengthAndDistance the timestamp farTime projects to
\* minRingRadius and the timestamp nearTime projects to maxRingRadius.
C1_Calibration ==
  /\ Rho(config.farTime) = config.minRingRadius
  /\ Rho(config.nearTime) = config.maxRingRadius

C1_Witness ==
  /\ last.op = "animateTime"
  /\ Span = R(6000)
  /\ Rho(config.farTime) = R(25)
  /\ Rho(config.nearTime) = R(300)

\* C2 as stated: with 25 / 300 / 600 and a span of 18000 the timestamp
\* nearTime - distanceFromCamera projects to maxRingRadius (and farTime to
\* minRingRadius).
C2_Original ==
  (IsDefaultConfig /\ Span = R(18000)) =>
     /\ Rho(RSub(config.nearTime, config.distanceFromCamera))
          = config.maxRingRadius
     /\ Rho(config.farTime) = config.minRingRadius

\* C2 amended: with 25 / 300 / 600 and a span of 18000 the timestamp nearTime
\* projects to maxRingRadius = 300, nearTime - distanceFromCamera projects to
\* half of it, and farTime projects to minRingRadius = 25.
C2_Amended ==
  (IsDefaultConfig /\ Span = R(18000)) =>
     /\ Rho(config.nearTime) = R(300)
     /\ Rho(RSub(config.nearTime, config.distanceFromCamera)) = R(150)
     /\ Rho(config.farTime) = R(25)

C2_Witness ==
  /\ IsDefaultConfig
  /\ Span = R(18000)
  /\ last.op = "animateTime"
  /\ Rho(config.nearTime) = R(300)

\* C3: in every state the derived values are those of the current window:
\* distanceFromCamera = minRingRadius * (nearTime - farTime) /
\* (maxRingRadius - minRingRadius), focalLength = distanceFromCamera *
\* maxRingRadius / constantR.
C3_DerivedCurrent ==
  /\ config.distanceFromCamera
       = RDiv(RMul(config.minRingRadius, Span),
              RSub(config.maxRingRadius, config.minRingRadius))
  /\ config.focalLength
       = RDiv(RMul(config.distanceFromCamera, config.maxRingRadius),
              config.constantR)

C3_Witness ==
  /\ last.op = "animateTime"
  /\ calls = 2
  /\ Span = R(12000)
  /\ IsDefaultConfig
  /\ config.focalLength = <<6000, 11>>

\* C4: for a fixed projection state, t1 < t2 < nearTime + distanceFromCamera
\* implies rho(t1) < rho(t2).
C4_Monotone ==
  \A t1 \in Stamps, t2 \in Stamps :
    (RLt(t1, t2) /\ RLt(t2, RAdd(config.nearTime, config.distanceFromCamera)))
      => RLt(Rho(t1), Rho(t2))

C4_Witness ==
  /\ last.op = "animateTime"
  /\ RLt(R(18000), RAdd(config.nearTime, config.distanceFromCamera))
  /\ nodes["A"].endPos.rho = Rho(R(12000))
  /\ RLt(nodes["A"].endPos.rho, Rho(R(18000)))

\* C5: the projection of every timestamp is finite and non-negative; it is
\* constantR * focalLength / (focalLength / 5) when nearTime - t +
\* distanceFromCamera <= 0 and constantR * focalLength / (nearTime - t +
\* distanceFromCamera) otherwise.
C5_Clamped ==
  \A t \in Stamps :
    /\ IsFinite(Rho(t))
    /\ RGe(Rho(t), Zero)
    /\ Rho(t) =
         IF RLe(RawTimeDiff(t), Zero)
         THEN RDiv(RMul(config.constantR, config.focalLength),
                   RDiv(config.focalLength, R(5)))
         ELSE RDiv(RMul(config.constantR, config.focalLength), RawTimeDiff(t))

C5_Witness ==
  /\ last.op = "animateTime"
  /\ RawTimeDiff(TimestampOf("B")) = Zero
  /\ nodes["B"].endPos.rho = RMul(R(5), config.constantR)

\* C6: for every timestamp t with nearTime - t + distanceFromCamera > 0 the
\* position-to-time formula applied to rho(t) returns t; a click on a node
\* drawn at its projected distance logs the node's own timestamp.
C6_Inverse ==
  /\ \A t \in Stamps :
       RGt(RawTimeDiff(t), Zero) => getTimeAtPosition(config, Rho(t)) = t
  /\ (last.op = "onClick" /\ last.logged[1].id \in NonRoot(graph)
        /\ RGt(RawTimeDiff(last.logged[1].time), Zero))
       => last.logged[1].computedTime = last.logged[1].time

C6_Witness ==
  /\ last.op = "onClick"
  /\ last.logged[1].id = "A"
  /\ calls > 0
  /\ RGt(RawTimeDiff(last.logged[1].time), Zero)
  /\ last.logged[1].computedTime = R(12000)

\* C7: the ring list is sorted by strictly decreasing time and adjacent
\* rings differ in time by exactly levelDistance.
C7_RingSpacing ==
  \A i \in 1..(Len(rings) - 1) :
    /\ RGt(rings[i].time, rings[i + 1].time)
    /\ RSub(rings[i].time, rings[i + 1].time) = levelDistance

\* a window scrolled back and pruned to one ring, then forward again:
\* augmentRings has put two rings in front of the one that was left
C7_Witness ==
  /\ last.op = "animateTime"
  /\ thrown = "none"
  /\ last.nrings = 1
  /\ Len(rings) = 3
  /\ rings[3].time = <<75000, 11>>
  /\ rings[1].time = <<273000, 11>>

\* C8 as stated, for the default radii: when no ring transition is running
\* the nearest ring's time is greater than nearTime - levelDistance and the
\* farthest ring's time is less than farTime + levelDistance.
C8_CoversAtRest ==
  (IsDefaultConfig /\ ~ringAnim.running) =>
     /\ Len(rings) > 0
     /\ RGt(rings[1].time, RSub(config.nearTime, levelDistance))
     /\ RLt(rings[Len(rings)].time, RAdd(config.farTime, levelDistance))

\* C9 as stated: pruneRings never raises an error.
C9_PruneNeverFails == thrown # "pruneRings"

\* C10 as stated: an animateTime call made while a transition is in flight
\* changes neither the window, nor a node end position, nor the ring set,
\* and starts no animation.
C10_Rejected ==
  [][(InFlight /\ last'.op = "animateTime" /\ calls' = calls + 1)
       => /\ config' = config
          /\ nodes' = nodes
          /\ rings' = rings
          /\ nodeAnim' = nodeAnim
          /\ ringAnim' = ringAnim]_vars

\* C10 amended: the busy flag is never set, and an animateTime call made
\* while a transition is in flight is carried out: nearTime and farTime are
\* its arguments, the derived values and every node end position are those
\* of the new window, and the node transition is in flight.
C10_Overwrites ==
  /\ busy = FALSE
  /\ (last.op = "animateTime" /\ last.inflight) =>
       /\ config.nearTime = last.near
       /\ config.farTime = last.far
       /\ config = computeFocalLengthAndDistance(config)
       /\ \A n \in NodeIds : nodes[n].endPos.rho = Rho(TimestampOf(n))
       /\ nodeAnim.running

C10_Witness ==
  /\ last.op = "animateTime"
  /\ last.inflight
  /\ calls = 2
  /\ config.nearTime = R(12000)
  /\ config.farTime = R(6000)
  /\ nodeAnim.delta = <<1, 2>>

\* C11 as stated: a ring tick with progress delta leaves every ring at
\* currentRadius = startRadius + (endRadius - startRadius) * delta; a tick
\* with delta = 0 leaves it at exactly startRadius, and the interpolation at
\* delta = 1 of a ring in transition is exactly its endRadius.
C11_Interpolation ==
  /\ last.op = "ringTick" =>
       \A i \in 1..Len(rings) :
         /\ rings[i].currentRadius
              = RAdd(rings[i].startRadius,
                     RMul(RSub(rings[i].endRadius, rings[i].startRadius),
                          last.near))
         /\ last.near = Zero => rings[i].currentRadius = rings[i].startRadius
  /\ ringAnim.running =>
       \A i \in 1..Len(rings) :
         RingAnimate(rings[i], One).currentRadius = rings[i].endRadius

\* C12 as stated: after the last tick of a ring transition (delta >= 1)
\* every ring has
\* startRadius = endRadius = currentRadius = the end radius that was the
\* target of the transition (the projection of its time under the state it
\* was given), and a further tick with any delta leaves currentRadius as
\* it is.
C12_Settles ==
  last.op = "ringComplete" =>
    \A i \in 1..Len(rings) :
      /\ rings[i].currentRadius
           = calculateDistanceRadius(rings[i].state, rings[i].time)
      /\ rings[i].startRadius = rings[i].currentRadius
      /\ rings[i].endRadius = rings[i].currentRadius
      /\ \A d \in Deltas \cup {One} :
           RingAnimate(rings[i], d).currentRadius = rings[i].currentRadius

(***************************************************************************)
(* The angular allocation (LayoutSpec).                                    *)
(***************************************************************************)
LaidOut == last.op \in {"refresh", "reposition"}

GetLength == LengthFunc(config, graph)

\* the intervals plotNodeAndChildren hands to the nodes of the tree
Plot == Plotted(graph, GetLength)

RootKids == graph.children["R"]

LastRootKid == RootKids[Len(RootKids)]

\* C13 as stated: once the positions are computed, every child of the root
\* sits at the start of the interval it was allotted, and the intervals
\* advance from 0 to exactly 2 * PI: the last child's end angle is 2 * PI.
C13_FullCircle ==
  LaidOut =>
    /\ \A i \in 1..Len(RootKids) :
         nodes[RootKids[i]].endPos.theta = Plot[RootKids[i]].startAngle
    /\ Plot[LastRootKid].endAngle = TwoPi

\* the interval a node was plotted with; the root is plotted with 0, 2 * PI
IntervalOf(n) ==
  IF n = "R" THEN [startAngle |-> Zero, endAngle |-> TwoPi] ELSE Plot[n]

Parents == {n \in Nodes(graph) : Len(graph.children[n]) > 0}

\* what plotNodeAndChildren works out for the children of n
AllotmentOf(n) ==
  Allotment(graph.children[n], AngleSpans(graph, GetLength),
            IntervalOf(n).startAngle, IntervalOf(n).endAngle)

\* C14: if leftOverSpace >= 0 at every node that has children, then under
\* every node each child's start angle is at least the end angle of the
\* sibling before it, and each child's end angle is at least its start
\* angle (with and without contraction).
C14_NoOverlap ==
  (LaidOut /\ \A n \in Parents : RGe(AllotmentOf(n).leftOverSpace, Zero)) =>
    \A n \in Parents :
      LET kids == graph.children[n]
      IN  /\ \A i \in 1..Len(kids) :
               /\ RGe(Plot[kids[i]].endAngle, Plot[kids[i]].startAngle)
               /\ nodes[kids[i]].endPos.theta = Plot[kids[i]].startAngle
          /\ \A i \in 2..Len(kids) :
               RGe(Plot[kids[i]].startAngle, Plot[kids[i - 1]].endAngle)

\* the contraction path at the root and the plain path below it, with no
\* space missing anywhere
C14_Witness ==
  /\ last.op = "reposition"
  /\ RootKids = <<"P", "S">>
  /\ \A n \in Parents : RGe(AllotmentOf(n).leftOverSpace, Zero)
  /\ AllotmentOf("R").notEnoughSpace
  /\ ~AllotmentOf("P").notEnoughSpace
  /\ AllotmentOf("R").contraction = R(5)
  /\ Plot["P"].endAngle = R(350)
  /\ nodes["S"].endPos.theta = R(355)

\* C15 as stated: under every node where the contraction path is taken
\* (extraSpacePerChild < minAngleForNode and at least one simple child),
\* the offset advances by at least minAngleForNode across every simple
\* child.
C15_MinimumAngle ==
  LaidOut =>
    \A n \in Parents :
      AllotmentOf(n).notEnoughSpace =>
        \A i \in 1..Len(graph.children[n]) :
          LET child == graph.children[n][i]
          IN  nodes[child].angleSpan.end = Zero =>
                RGe(RSub(Plot[child].endAngle, Plot[child].offset),
                    minAngleForNode)

\* the root with the leaves A (100 s old) and B (50 s old), laid out for
\* the window [now - 3600, now]
TwoLeafScenario ==
  /\ LaidOut
  /\ graph = Pair
  /\ config.nearTime = Now
  /\ config.farTime = RSub(Now, R(3600))

\* the intervals of A and B have no angle in common
DisjointIntervals ==
  \/ RLe(Plot["A"].endAngle, Plot["B"].startAngle)
  \/ RLe(Plot["B"].endAngle, Plot["A"].startAngle)

\* C16 as stated: in the two-leaf scenario the projected distance of A is
\* greater than that of B, A and B sit at different angles and their
\* angular intervals do not overlap.
C16_OlderIsFarther ==
  TwoLeafScenario =>
    /\ RGt(nodes["A"].endPos.rho, nodes["B"].endPos.rho)
    /\ nodes["A"].endPos.theta # nodes["B"].endPos.theta
    /\ DisjointIntervals

\* C16 amended: in the two-leaf scenario the projected distance of A, the
\* older event, is less than that of B, A and B sit at different angles and
\* their angular intervals do not overlap.
C16_OlderIsNearer ==
  TwoLeafScenario =>
    /\ RLt(nodes["A"].endPos.rho, nodes["B"].endPos.rho)
    /\ nodes["A"].endPos.theta # nodes["B"].endPos.theta
    /\ nodes["A"].endPos.theta = Plot["A"].startAngle
    /\ nodes["B"].endPos.theta = Plot["B"].startAngle
    /\ DisjointIntervals

C16_Witness ==
  /\ TwoLeafScenario
  /\ IsDefaultConfig
  /\ nodes["A"].endPos = [theta |-> R(90), rho |-> <<10800, 47>>]
  /\ nodes["B"].endPos = [theta |-> R(270), rho |-> <<21600, 83>>]

(***************************************************************************)
(* The window transition (WindowSpec).                                     *)
(***************************************************************************)
\* C17: when animateTime returns, the window and the derived projection
\* values are those of the call and every node's end position is the one
\* computed for them; unless augmentRings raised, the ring list is already
\* augmented for the new window (augmenting again would add nothing), every
\* ring's endRadius is its projection under the new state and the ring
\* transition is running, so every ring tick of the transition comes after
\* augmentRings.  Rings are taken off the list, and pruneRings raises, only
\* in the step that ends the ring animation (its last tick and completion
\* callback) or when setInterval rebuilds the list.
C17_Ordering ==
  /\ [](last.op = "animateTime" =>
          /\ config.nearTime = last.near
          /\ config.farTime = last.far
          /\ config = computeFocalLengthAndDistance(config)
          /\ \A n \in Nodes(graph) :
               nodes[n].endPos = computePositions(graph, GetLength)[n]
          /\ nodeAnim.running
          /\ thrown = "none" =>
               /\ ringAnim.running
               /\ Len(augmentRings(rings, config, levelDistance).rings)
                    = Len(rings)
               /\ \A i \in 1..Len(rings) :
                    rings[i].endRadius
                      = calculateDistanceRadius(getUpdatedState(config),
                                                rings[i].time))
  /\ [][(Len(rings') < Len(rings) \/ thrown' = "pruneRings")
          => last'.op \in {"ringComplete", "setInterval"}]_vars

\* a call whose augmentRings added rings, before the first tick
C17_Witness ==
  /\ last.op = "animateTime"
  /\ ~last.inflight
  /\ thrown = "none"
  /\ Len(rings) > last.nrings
  /\ ringAnim = [running |-> TRUE, delta |-> Zero]
  /\ nodes["A"].endPos.rho # nodes["A"].pos.rho

\* C18 as stated: onClick on a node that is not the root, when nothing is
\* in flight, makes that node the root, recomputes every end position and
\* starts the node transition.
C18_Recenters ==
  [][(last'.op = "onClick" /\ ~InFlight
        /\ last'.logged[1].id \in NonRoot(graph)
        /\ last'.logged[1].id # root)
       => /\ root' = last'.logged[1].id
          /\ nodeAnim'.running]_vars

\* C19: onClick while a transition is in flight, on the root, or on an id
\* that is not in the graph raises no error and leaves the root, every
\* node, the ring set and the projection state as they were.
C19_NoOp ==
  [][(last'.op = "onClick"
        /\ \/ InFlight
           \/ last'.logged[1].id = root
           \/ last'.logged[1].id \notin Nodes(graph))
       => /\ thrown' = "none"
          /\ UNCHANGED <<root, nodes, rings, levelDistance, config,
                         nodeAnim, ringAnim>>]_vars

\* a click on an id that is not in the graph while both transitions run
C19_Witness ==
  /\ last.op = "onClick"
  /\ last.inflight
  /\ nodeAnim.running
  /\ ringAnim.running
  /\ last.logged[1].id = "X"

(***************************************************************************)
(* The fading of nodes during a node transition (NodeSpec).                *)
(***************************************************************************)
\* the position p is outside the visible window of the configuration
Outside(p) ==
  \/ RGt(RAbs(getc(p).x), config.maxRingRadius)
  \/ RGt(RAbs(getc(p).y), config.maxRingRadius)
  \/ RLt(p.rho, config.minRingRadius)

\* the position p is inside the visible window of the configuration
Inside(p) ==
  /\ RLe(RAbs(getc(p).x), config.maxRingRadius)
  /\ RLe(RAbs(getc(p).y), config.maxRingRadius)
  /\ RGe(p.rho, config.minRingRadius)

\* this step started an alpha transition of node n with the given target
FadeStarted(n, target) ==
  /\ nodes'[n].alphaEnd = target
  /\ Len(alphaAnims'[n]) = Len(alphaAnims[n]) + 1
  /\ alphaAnims'[n][Len(alphaAnims'[n])] = [delta |-> Zero, duration |-> 500]
  /\ \A i \in 1..Len(alphaAnims[n]) : alphaAnims'[n][i] = alphaAnims[n][i]

\* C20: on every tick of the node transition (the last one included), a
\* node whose interpolated position has polar distance other than 0 and is
\* outside the visible window, and whose alpha is not 0, keeps its alpha in
\* that tick and gets a new alpha transition with target 0 and duration
\* 500, at progress 0; a node whose interpolated position is inside the
\* window and whose alpha is not 1 gets a new alpha transition with target
\* 1.
C20_FadePolicy ==
  [][last'.op \in {"nodeTick", "nodeComplete"} =>
       \A n \in Nodes(graph) :
         /\ (Outside(nodes'[n].pos) /\ nodes'[n].pos.rho # Zero
               /\ nodes[n].alpha # Zero)
              => (nodes'[n].alpha = nodes[n].alpha /\ FadeStarted(n, Zero))
         /\ (Inside(nodes'[n].pos) /\ nodes[n].alpha # One)
              => FadeStarted(n, One)]_vars

\* a tick has just started the fading of a fully opaque node that is
\* outside the window
C20_Witness ==
  /\ last.op = "nodeTick"
  /\ \E n \in NonRoot(graph) :
       /\ Outside(nodes[n].pos)
       /\ nodes[n].pos.rho # Zero
       /\ nodes[n].alpha = One
       /\ nodes[n].alphaEnd = Zero
       /\ alphaAnims[n] = <<[delta |-> Zero, duration |-> 500]>>

\* C21: with minRingRadius > 0, every tick of the node transition (the last
\* one included) leaves every node whose interpolated polar distance is 0
\* with alpha 0 and faux = true, and starts no alpha transition for it.
C21_CentreIsFaux ==
  [][(last'.op \in {"nodeTick", "nodeComplete"}
        /\ RGt(config.minRingRadius, Zero)) =>
       \A n \in Nodes(graph) :
         nodes'[n].pos.rho = Zero =>
           /\ nodes'[n].alpha = Zero
           /\ nodes'[n].faux
           /\ alphaAnims'[n] = alphaAnims[n]]_vars

\* the first tick has just made the root, opaque until then, transparent
C21_Witness ==
  /\ last.op = "nodeTick"
  /\ calls = 1
  /\ RGt(config.minRingRadius, Zero)
  /\ nodes["R"].pos.rho = Zero
  /\ nodes["R"].alpha = Zero
  /\ nodes["R"].faux
  /\ alphaAnims["R"] = <<>>
  /\ \E n \in NonRoot(graph) : nodes[n].pos.rho # Zero /\ nodes[n].alpha = One

(***************************************************************************)
(* The drawing of edges (EdgeSpec).                                        *)
(***************************************************************************)
\* the edge drawn last, when the last operation drew one
Drawn == last.logged[1]

\* C22: an edge is drawn with globalAlpha 0 whenever one of its endpoints
\* is at polar distance 0, whatever the alphas of the endpoints are.
C22_OriginEdgeHidden ==
  last.op = "plotLine" =>
    ((nodes[Drawn.nodeFrom].pos.rho = Zero
        \/ nodes[Drawn.nodeTo].pos.rho = Zero)
       => Drawn.globalAlpha = Zero)

\* the edge from the root was drawn while both endpoints were fully opaque
C22_Witness ==
  /\ last.op = "plotLine"
  /\ nodes[Drawn.nodeFrom].pos.rho = Zero
  /\ nodes[Drawn.nodeFrom].alpha = One
  /\ nodes[Drawn.nodeTo].alpha = One
  /\ nodes[Drawn.nodeTo].pos.rho # Zero
  /\ Drawn.globalAlpha = Zero

\* C23 as stated: an edge is drawn with globalAlpha 0 whenever the alpha of
\* one of its endpoints is below 1, and with globalAlpha 1 only when both
\* endpoints have alpha 1 and neither is at polar distance 0.
C23_FadedEdgeHidden ==
  last.op = "plotLine" =>
    /\ (RLt(nodes[Drawn.nodeFrom].alpha, One)
          \/ RLt(nodes[Drawn.nodeTo].alpha, One))
         => Drawn.globalAlpha = Zero
    /\ Drawn.globalAlpha = One
         => /\ nodes[Drawn.nodeFrom].alpha = One
            /\ nodes[Drawn.nodeTo].alpha = One
            /\ nodes[Drawn.nodeFrom].pos.rho # Zero
            /\ nodes[Drawn.nodeTo].pos.rho # Zero

(***************************************************************************)
(* The ring spacing (StepSpec).                                            *)
(***************************************************************************)
\* C24 as stated: setTimeStep(n) raises nothing, sets the ring spacing to n
\* and rebuilds the ring list at that spacing, and getTimeStep raises
\* nothing and returns the ring spacing.
C24_TimeStepRoundTrip ==
  /\ last.op = "setTimeStep" =>
       /\ thrown = "none"
       /\ levelDistance = last.near
       /\ rings = resetRings(config, last.near)
  /\ last.op = "getTimeStep" =>
       /\ thrown = "none"
       /\ last.logged = <<levelDistance>>

(***************************************************************************)
(* The ring list (Spec).                                                   *)
(***************************************************************************)
\* the positions of the rings whose time is outside [farTime, nearTime]
OutsideWindow(rs, cfg) ==
  {i \in 1..Len(rs) :
     RLt(rs[i].time, cfg.farTime) \/ RGt(rs[i].time, cfg.nearTime)}

\* C25 as stated: while the ring transition runs, that is after augmentRings
\* and before pruneRings, at most one ring of the list has a time outside
\* [farTime, nearTime].
C25_AtMostOneOutside ==
  ringAnim.running => Cardinality(OutsideWindow(rings, config)) <= 1

\* C26 as stated: the list resetRings builds (at construction and in
\* setInterval) starts with a ring whose time is nearTime, each next ring is
\* levelDistance earlier, and every ring's time lies in [farTime, nearTime].
C26_LadderFromNearEdge ==
  last.op \in {"initialize", "setInterval"} =>
    /\ Len(rings) > 0
    /\ rings[1].time = config.nearTime
    /\ \A i \in 1..(Len(rings) - 1) :
         rings[i + 1].time = RSub(rings[i].time, levelDistance)
    /\ \A i \in 1..Len(rings) :
         RLe(config.farTime, rings[i].time)
           /\ RLe(rings[i].time, config.nearTime)

\* the ring of the list rs that is nearest in time to t
NearestRing(rs, t) ==
  IF RLt(t, rs[Len(rs)].time) THEN rs[Len(rs)] ELSE rs[1]

\* C27: every ring an animateTime call adds to the list carries, as start
\* and current radius, the projection of its time under the state snapshot
\* of the nearest ring the list had before the call (the last ring for a
\* ring added at the far end, the first ring for one added at the near
\* end), which is the projection state from before the call, and as end
\* radius the projection of its time under the state of the new window.
C27_SeededFromNeighbour ==
  [][(last'.op = "animateTime" /\ thrown' = "none") =>
       \A i \in 1..Len(rings') :
         (\A j \in 1..Len(rings) : rings[j].time # rings'[i].time) =>
           /\ rings'[i].startRadius
                = calculateDistanceRadius(
                    NearestRing(rings, rings'[i].time).state, rings'[i].time)
           /\ rings'[i].startRadius
                = calculateDistanceRadius(getUpdatedState(config),
                                          rings'[i].time)
           /\ rings'[i].currentRadius = rings'[i].startRadius
           /\ rings'[i].endRadius
                = calculateDistanceRadius(getUpdatedState(config'),
                                          rings'[i].time)
           /\ rings'[i].state = getUpdatedState(config')]_vars

\* a call made at rest has lengthened the list, and the ring at its far end
\* has still to move
C27_Witness ==
  /\ last.op = "animateTime"
  /\ ~last.inflight
  /\ thrown = "none"
  /\ Len(rings) > last.nrings
  /\ config.nearTime = Now
  /\ IsFinite(rings[Len(rings)].startRadius)
  /\ rings[Len(rings)].startRadius # rings[Len(rings)].endRadius

\* the times of the rings of a list, in the order of the list
TimesOf(rs) == [i \in 1..Len(rs) |-> rs[i].time]

\* the times of a list that lie in [farTime, nearTime], in their order
TimesInWindow(ts, cfg) ==
  LET InWindow(t) == RLe(cfg.farTime, t) /\ RLe(t, cfg.nearTime)
  IN  SelectSeq(ts, InWindow)

\* C28: the step that ends the ring transition, in which pruneRings runs,
\* leaves in the list exactly the rings whose time is in [farTime,
\* nearTime], in the order they had: no ring outside the window remains and
\* no ring inside it is removed.
C28_PrunesExactly ==
  [][last'.op = "ringComplete" =>
       TimesOf(rings') = TimesInWindow(TimesOf(rings), config)]_vars

\* pruneRings has returned after removing some rings and keeping others
C28_Witness ==
  /\ last.op = "ringComplete"
  /\ thrown = "none"
  /\ 0 < Len(rings)
  /\ Len(rings) < last.nrings
  /\ OutsideWindow(rings, config) = {}

\* C29: a ring keeps its time.  Ring.compute('endRadius') changes only the
\* state snapshot and endRadius, and Ring.animate changes only the radius
\* slots.  An animateTime call keeps the rings of the list, in their order,
\* with their times, start radii and current radii, and adds rings around
\* them; a ring tick keeps every ring's time and snapshot; the end of the
\* ring transition keeps a run of consecutive rings with their times; no
\* other step except setInterval, which builds a new list, touches the
\* list.
C29_TimeIsFixed ==
  /\ [](\A i \in 1..Len(rings) :
          /\ RingComputeEnd(config, rings[i])
               = [rings[i] EXCEPT
                    !.state = RingComputeEnd(config, rings[i]).state,
                    !.endRadius = RingComputeEnd(config, rings[i]).endRadius]
          /\ \A d \in Deltas \cup {One} :
               /\ RingAnimate(rings[i], d).time = rings[i].time
               /\ RingAnimate(rings[i], d).state = rings[i].state)
  /\ [][CASE last'.op = "animateTime" ->
               \E k \in 0..(Len(rings') - Len(rings)) :
                 \A i \in 1..Len(rings) :
                   /\ rings'[k + i].time = rings[i].time
                   /\ rings'[k + i].startRadius = rings[i].startRadius
                   /\ rings'[k + i].currentRadius = rings[i].currentRadius
            [] last'.op = "ringTick" ->
               /\ Len(rings') = Len(rings)
               /\ \A i \in 1..Len(rings) :
                    /\ rings'[i].time = rings[i].time
                    /\ rings'[i].state = rings[i].state
            [] last'.op = "ringComplete" ->
               \E k \in 0..(Len(rings) - Len(rings')) :
                 \A i \in 1..Len(rings') :
                   /\ rings'[i].time = rings[k + i].time
                   /\ rings'[i].state = rings[k + i].state
            [] last'.op = "setInterval" -> TRUE
            [] OTHER -> rings' = rings]_vars

\* an animateTime call made while the ring transition was under way has
\* added rings to the list; the ring that was first before is still there,
\* part of the way to its target
C29_Witness ==
  /\ last.op = "animateTime"
  /\ last.inflight
  /\ thrown = "none"
  /\ Len(rings) > last.nrings
  /\ \E i \in 1..Len(rings) :
       /\ IsFinite(rings[i].startRadius)
       /\ rings[i].currentRadius # rings[i].startRadius
       /\ rings[i].currentRadius # rings[i].endRadius

TickKeepsAlpha ==
  [][last'.op \in {"nodeTick", "nodeComplete"} =>
       \A n \in Nodes(graph) : nodes'[n].alpha = nodes[n].alpha]_vars

\* a tick of an alpha transition changes nothing of the nodes but one alpha
FadeKeepsPositions ==
  [][last'.op \in {"alphaTick", "alphaComplete"} =>
       /\ \A n \in Nodes(graph) :
            nodes'[n] = [nodes[n] EXCEPT !.alpha = nodes'[n].alpha]
       /\ Cardinality({n \in Nodes(graph) :
                         nodes'[n].alpha # nodes[n].alpha}) <= 1]_vars

\* a tick of the node transition and a tick of a running alpha transition
\* give the same positions and alphas in either order
TicksCommute ==
  nodeAnim.running =>
    \A d \in Deltas, e \in Deltas, n \in Nodes(graph) :
      \A i \in 1..Len(alphaAnims[n]) :
        LET NodesOf(s) ==
              [m \in Nodes(graph) |->
                 [pos |-> s.nodes[m].pos, alpha |-> s.nodes[m].alpha]]
        IN  NodesOf(alphaCompute(nodesCompute(State, d), n, i, e))
              = NodesOf(nodesCompute(alphaCompute(State, n, i, e), d))

\* C31 as stated: a tick of the node transition writes no alpha, a tick of
\* an alpha transition writes only the alpha of its node, and the two kinds
\* of tick give the same positions and alphas in either order.
C31_DisjointFields ==
  /\ []TicksCommute
  /\ TickKeepsAlpha
  /\ FadeKeepsPositions

(***************************************************************************)
(* The spans setAngleSpan assigns (LayoutSpec).                            *)
(***************************************************************************)
\* the nodes other than the root that have children
InnerNodes == {p \in NonRoot(graph) : Len(graph.children[p]) > 0}

\* the angle the node p takes up at its own distance
Footprint(p) == findAngleOfNode(graph, p, GetLength)

\* C32 as stated: the span of the first child of a node is shifted by the
\* footprint of the node exactly when the distances of the two differ, in
\* absolute value, by less than twice the radius of the node.
C32_ShiftIffClose ==
  LaidOut =>
    \A p \in InnerNodes :
      LET c     == graph.children[p][1]
          close == RLt(RAbs(RSub(GetLength[c], GetLength[p])),
                       RMul(graph.dim[p], R(2)))
          sum   == SpanSum(graph, c, Len(graph.children[c]), GetLength)
      IN  /\ nodes[c].angleSpan.begin = (IF close THEN Footprint(p) ELSE Zero)
          /\ nodes[c].angleSpan.end
               = (IF close THEN RAdd(sum, Footprint(p)) ELSE sum)

RECURSIVE EndSum(_, _)
\* the sum of angleSpan.end over the first i children of n, as the nodes
\* carry it once the positions are computed
EndSum(n, i) ==
  IF i = 0 THEN Zero
  ELSE RAdd(EndSum(n, i - 1), nodes[graph.children[n][i]].angleSpan.end)

\* what the call setAngleSpan(parent) has added to the span of n: the
\* footprint of the parent, or nothing
ShiftOf(n) ==
  IF Parent(graph, n) \in NonRoot(graph) /\ IsFirstChild(graph, Parent(graph, n), n)
  THEN nodes[n].angleSpan.begin
  ELSE Zero

\* C33: once the positions are computed, the span a node other than the
\* root was assigned by its own call of setAngleSpan begins at 0 and ends at
\* the sum of angleSpan.end of its children, {0, 0} for a node without
\* children: the footprint of the node itself is not added.  Only the call
\* for its parent moves the span, of a first child, by the footprint of the
\* parent.  The span of the root is {0, 2 * PI}.
C33_SpanIsSumOfChildren ==
  LaidOut =>
    /\ nodes["R"].angleSpan = [begin |-> Zero, end |-> TwoPi]
    /\ \A n \in NonRoot(graph) :
         /\ \/ ShiftOf(n) = Zero
            \/ /\ Parent(graph, n) \in NonRoot(graph)
               /\ ShiftOf(n) = Footprint(Parent(graph, n))
         /\ nodes[n].angleSpan.begin = ShiftOf(n)
         /\ nodes[n].angleSpan.end
              = RAdd(EndSum(n, Len(graph.children[n])), ShiftOf(n))

\* the positions are computed for a tree in which a node with a footprint
\* has a child with children of its own
C33_Witness ==
  /\ LaidOut
  /\ \E p \in InnerNodes :
       /\ Footprint(p) # Zero
       /\ nodes[p].angleSpan.end # Zero
       /\ graph.children[p][1] \in InnerNodes

(***************************************************************************)
(* The positions compute() leaves (LayoutSpec).                            *)
(***************************************************************************)
\* the position slots the last call of compute was asked for
Requested ==
  IF last.op = "refresh" THEN {"current", "start", "end"} ELSE {"end"}

\* the position of n in a slot
Slot(n, pi) ==
  CASE pi = "start"   -> nodes[n].startPos
    [] pi = "current" -> nodes[n].pos
    [] pi = "end"     -> nodes[n].endPos

\* the root at the origin and every other node at the start of its interval
\* and at the projection of its timestamp, in every requested slot
PlacedAtStart ==
  \A pi \in Requested :
    /\ Slot("R", pi) = [theta |-> Zero, rho |-> Zero]
    /\ \A n \in NonRoot(graph) :
         Slot(n, pi) = [theta |-> Plot[n].startAngle,
                        rho |-> Rho(graph.stamp[n])]

\* the end angle of the sibling before the i-th child of n, 0 for the first
OffsetBefore(n, i) ==
  IF i = 1 THEN Zero ELSE Plot[graph.children[n][i - 1]].endAngle

\* offset + child.angleSpan.begin + startAngle + extraPerChild / 2 for the
\* i-th child of n
StartBase(n, i) ==
  RAdd(RAdd(RAdd(OffsetBefore(n, i),
                 nodes[graph.children[n][i]].angleSpan.begin),
            IntervalOf(n).startAngle),
       RDiv(AllotmentOf(n).extraSpacePerChild, R(2)))

IsSimple(c) == nodes[c].angleSpan.end = Zero

\* C34 as stated: in every requested slot the root is at (0, 0) and every
\* other node at the start angle of its interval and the projection of its
\* timestamp, and the start angle of a child is offset + angleSpan.begin +
\* startAngle + extraPerChild / 2, plus contraction / 2 for a child that is
\* not simple in contraction mode, offset being the end angle of the
\* sibling before it.
C34_StartAngleAsStated ==
  LaidOut =>
    /\ PlacedAtStart
    /\ \A n \in Parents : \A i \in 1..Len(graph.children[n]) :
         LET c == graph.children[n][i]
         IN  Plot[c].startAngle
               = IF AllotmentOf(n).notEnoughSpace /\ ~IsSimple(c)
                 THEN RAdd(StartBase(n, i),
                           RDiv(AllotmentOf(n).contraction, R(2)))
                 ELSE StartBase(n, i)

\* C34, amended: as stated, and in contraction mode the start angle of a
\* simple child is offset + angleSpan.begin + startAngle + extraPerChild / 2
\* plus minAngleForNode / 2.
C34_StartAngle ==
  LaidOut =>
    /\ PlacedAtStart
    /\ \A n \in Parents : \A i \in 1..Len(graph.children[n]) :
         LET c == graph.children[n][i]
         IN  Plot[c].startAngle
               = RAdd(StartBase(n, i),
                      IF ~AllotmentOf(n).notEnoughSpace THEN Zero
                      ELSE IF IsSimple(c) THEN RDiv(minAngleForNode, R(2))
                      ELSE RDiv(AllotmentOf(n).contraction, R(2)))

\* compute('end') has run on a tree in which one node shares its space out
\* in contraction mode between a simple child and one that is not, and
\* another node shares it out plainly
C34_Witness ==
  /\ last.op = "reposition"
  /\ \E n \in Parents :
       /\ AllotmentOf(n).notEnoughSpace
       /\ AllotmentOf(n).contraction # Zero
       /\ \E i \in 2..Len(graph.children[n]) : IsSimple(graph.children[n][i])
       /\ \E i \in 1..Len(graph.children[n]) : ~IsSimple(graph.children[n][i])
  /\ \E n \in Parents : ~AllotmentOf(n).notEnoughSpace

(***************************************************************************)
(* The ranks of tagChildren (TagSpec).                                     *)
(***************************************************************************)
TagAdjs == Adjacencies(graph, tag.par)

\* a call of tagChildren for a node with an angleSpan has returned
TagReturned ==
  /\ last.op \in {"tagChildren", "tagStep"}
  /\ ~tag.running
  /\ thrown = "none"
  /\ nodes[tag.par].angleSpan # NoSpan

IsAdjacent(id, adjs) == \E i \in 1..Len(adjs) : adjs[i] = id

\* the second loop ranks no more nodes than par has adjacent nodes
TagBounded == tag.running => tag.k < Len(TagAdjs)

\* for an adjacent id the adjacent nodes after it, taken round, carry the
\* ranks 0, 1, ..., len - 2
TagRanks ==
  (TagReturned /\ IsAdjacent(tag.id, TagAdjs)) =>
    \A m \in 0..(Len(TagAdjs) - 2) :
      nodes[TagAdjs[((FirstLoop(TagAdjs, tag.id, 0) + 1 + m) % Len(TagAdjs)) + 1]].dist
        = <<m>>

\* a call with an adjacent id changes no dist of that id
TagKeepsId ==
  [][(last'.op \in {"tagChildren", "tagStep"}
        /\ IsAdjacent(tag'.id, Adjacencies(graph, tag'.par)))
       => nodes'[tag'.id].dist = nodes[tag'.id].dist]_vars

\* C40 as stated: tagChildren(par, id) returns for every par with an
\* angleSpan and every id, adjacent to par or not (the second loop ranks no
\* more nodes than par has adjacent nodes); for an adjacent id the other
\* adjacent nodes carry the ranks 0, 1, ..., len - 2 in cyclic order from
\* just after id, and the dist of id is as it was.
C40_TagTerminates ==
  /\ []TagBounded
  /\ []TagRanks
  /\ TagKeepsId

\* the children carry ranks and the positions have been computed since
Ranked(p) ==
  {c \in {graph.children[p][i] : i \in 1..Len(graph.children[p])} :
     nodes[c].dist # NoDist}

\* C35 as stated: once the children of a node carry dist ranks, compute
\* walks them in increasing dist order: of two ranked children the one with
\* the smaller rank is placed at the smaller angle.
C35_WalksInDistOrder ==
  last.op = "refresh" =>
    \A p \in Nodes(graph) : \A a \in Ranked(p), b \in Ranked(p) :
      nodes[a].dist[1] < nodes[b].dist[1] =>
        RLt(nodes[a].pos.theta, nodes[b].pos.theta)

\* C36 as stated: minAngleForNode is 5 degrees (PI / 36), and where the
\* contraction path is taken the offset advances by exactly 5 degrees
\* across every simple child.
C36_FiveDegrees ==
  /\ minAngleForNode = RDiv(TwoPi, R(72))
  /\ LaidOut =>
       \A n \in Parents :
         AllotmentOf(n).notEnoughSpace =>
           \A i \in 1..Len(graph.children[n]) :
             IsSimple(graph.children[n][i]) =>
               RSub(Plot[graph.children[n][i]].endAngle, OffsetBefore(n, i))
                 = RDiv(TwoPi, R(72))

\* C37 as stated: in every projection state and at every time, the times of
\* the rings among them, the radius Ring.calculateDistanceRadius gives is
\* the distance the level-distance function of the nodes gives, and it is
\* finite, also where nearTime - t + distanceFromCamera is exactly 0.
C37_SameProjection ==
  \A t \in Times \cup {rings[i].time : i \in 1..Len(rings)} :
    /\ calculateDistanceRadius(getUpdatedState(config), t)
         = createLevelDistanceFunc(config, t)
    /\ IsFinite(calculateDistanceRadius(getUpdatedState(config), t))

\* C38 as stated: under every node other than the root that is plotted with
\* an interval [startAngle, endAngle) and has leftOverSpace >= 0, the
\* interval of every child lies inside that interval, whatever startAngle.
C38_Containment ==
  LaidOut =>
    \A n \in InnerNodes :
      RGe(AllotmentOf(n).leftOverSpace, Zero) =>
        \A i \in 1..Len(graph.children[n]) :
          /\ RLe(Plot[n].startAngle, Plot[graph.children[n][i]].startAngle)
          /\ RLe(Plot[graph.children[n][i]].endAngle, Plot[n].endAngle)

(***************************************************************************)
(* Fading out (FadeFair): one event, and alpha transitions that overlap.   *)
(***************************************************************************)
\* the tree: the root and the event A
OneGraph ==
  [children |-> [n \in {"R", "A"} |-> IF n = "R" THEN <<"A">> ELSE <<>>],
   stamp |-> [n \in {"A"} |-> TimestampOf(n)],
   dim |-> [n \in {"A"} |-> DefaultDim]]

FadeInit == Constructed(<<R(25), R(300), R(600)>>, R(6000), OneGraph)

FadeAnimateTime == AnimateTimeWithin(NodeWindows, MaxFadeCalls)

FadeTick == NodeTickUpTo(MaxOverlap)

FadeComplete == NodeCompleteUpTo(MaxOverlap)

FadeNext ==
  \/ FadeAnimateTime
  \/ FadeTick
  \/ FadeComplete
  \/ AlphaTick
  \/ AlphaComplete

\* the timer of the node transition reaches its duration: the last step
NodeCompletes == nodeAnim.running /\ nodeAnim' = Idle

\* the timer of an alpha transition reaches its duration: the last step
AlphaCompletes ==
  \E n \in Nodes(graph) : \E i \in 1..Len(alphaAnims[n]) :
    alphaAnims' = [alphaAnims EXCEPT ![n] = Without(@, i)]

\* the clock ends the node transition and every alpha transition it started
FadeFair ==
  /\ FadeInit
  /\ [][FadeNext]_vars
  /\ WF_nodeAnim(NodeCompletes)
  /\ WF_alphaAnims(AlphaCompletes)

\* the position p is away from the centre and outside the visible window
OutAt(p) == Outside(p) /\ p.rho # Zero

Out(n) == OutAt(nodes[n].pos)

TickDone == last.op \in {"nodeTick", "nodeComplete"}

\* if a tick finds the event outside and the event is outside for good, its
\* alpha is 0 for good
FadesOut ==
  (<>(TickDone /\ Out("A")) /\ <>[]Out("A")) => <>[](nodes["A"].alpha = Zero)

\* an alpha that is 0 stays 0 as long as the node is outside
StaysOut ==
  [][\A n \in NonRoot(graph) :
       (Out(n) /\ nodes[n].alpha = Zero /\ OutAt(nodes'[n].pos))
         => nodes'[n].alpha = Zero]_vars

AlphaInRange ==
  \A n \in Nodes(graph) : RGe(nodes[n].alpha, Zero) /\ RLe(nodes[n].alpha, One)

\* C39 as stated: under FadeFair, if a tick of the node transition finds
\* the event away from the centre and outside the visible window and the
\* event stays outside from some point on, then from some point on its
\* alpha is 0 and stays 0; and every alpha is in [0, 1] in every state.
C39_FadesOut ==
  /\ FadesOut
  /\ []AlphaInRange

=============================================================================
